---- MODULE Spec2Model ----
(***************************************************************************)
(* NODI board game: the rules engine (rays, ability values, legality,      *)
(* scatter), the store's action application and the AI's hypothetical      *)
(* action application, modelled from the TypeScript sources.               *)
(*                                                                         *)
(* A coordinate {r, c} is the pair <<r, c>>.  A piece is a record          *)
(* [counters, arrowDir]; the absent piece (null) is NoPiece and an absent  *)
(* arrowDir (undefined) is "none".  A counter is [owner, isKey] where      *)
(* isKey is "true", "false" or "undefined" (the optional field left out).  *)
(***************************************************************************)
EXTENDS Integers, Sequences, FiniteSets, TLC

\* ------------------------------------------------------------------------
\* Types and constants
\* ------------------------------------------------------------------------

BoardSize == 8

Players == {"Black", "White"}

DIR_ORDER == <<"N", "NE", "E", "SE", "S", "SW", "W", "NW">>

Dirs == {DIR_ORDER[i] : i \in 1..Len(DIR_ORDER)}

DIRS ==
  [d \in Dirs |->
     CASE d = "N"  -> <<-1, 0>>
       [] d = "NE" -> <<-1, 1>>
       [] d = "E"  -> <<0, 1>>
       [] d = "SE" -> <<1, 1>>
       [] d = "S"  -> <<1, 0>>
       [] d = "SW" -> <<1, -1>>
       [] d = "W"  -> <<0, -1>>
       [] d = "NW" -> <<-1, -1>>]

inBounds(r, c) == r >= 0 /\ r < BoardSize /\ c >= 0 /\ c < BoardSize

Squares == {<<r, c>> : r \in 0..(BoardSize - 1), c \in 0..(BoardSize - 1)}

NoPiece == [counters |-> << >>, arrowDir |-> "none"]

Counter(owner, isKey) == [owner |-> owner, isKey |-> isKey]

makeSingle(owner, isKey) ==
  [counters |-> <<Counter(owner, IF isKey THEN "true" ELSE "false")>>, arrowDir |-> "none"]

\* A board value holds a piece for each occupied square; a square outside
\* its domain is an empty cell (null).
emptyBoard == [sq \in {} |-> NoPiece]

other(p) == IF p = "Black" THEN "White" ELSE "Black"

indexOf(d) == CHOOSE i \in 1..Len(DIR_ORDER) : DIR_ORDER[i] = d

\* ------------------------------------------------------------------------
\* rules.ts: piece helpers, rays and ability values
\* ------------------------------------------------------------------------

pieceAt(b, pos) ==
  IF inBounds(pos[1], pos[2]) /\ pos \in DOMAIN b THEN b[pos] ELSE NoPiece

isKing(p) == Len(p.counters) = 2

ownerOf(p) == p.counters[1].owner

\* isKeyPiece with the flag compared against a value no counter carries
isKeyPieceMistyped(p) == \E i \in 1..Len(p.counters) : p.counters[i].isKey = "key"

isKeyPiece(p) == \E i \in 1..Len(p.counters) : p.counters[i].isKey = "true"

SeqHas(s, x) == \E i \in 1..Len(s) : s[i] = x

RECURSIVE RayWalkThrough(_, _, _, _, _)
RayWalkThrough(b, r, c, dr, dc) ==
  IF ~inBounds(r, c) THEN << >>
  ELSE << <<r, c>> >> \o RayWalkThrough(b, r + dr, c + dc, dr, dc)

\* The while loop of getRayForKing: push the square, stop after a blocker.
RECURSIVE RayWalk(_, _, _, _, _)
RayWalk(b, r, c, dr, dc) ==
  IF ~inBounds(r, c) THEN << >>
  ELSE IF pieceAt(b, <<r, c>>) # NoPiece THEN << <<r, c>> >>
  ELSE << <<r, c>> >> \o RayWalk(b, r + dr, c + dc, dr, dc)

getRayForKing(b, from) ==
  LET p == pieceAt(b, from) IN
  IF p = NoPiece \/ ~isKing(p) \/ p.arrowDir = "none" THEN << >>
  ELSE LET d == DIRS[p.arrowDir] IN RayWalk(b, from[1] + d[1], from[2] + d[2], d[1], d[2])

\* The kings with an arrow whose ray contains pos, as the double loop of
\* valueAt finds them (empty cells are skipped by the loop).
RayHitters(b, pos) ==
  {q \in DOMAIN b :
     /\ isKing(b[q])
     /\ b[q].arrowDir # "none"
     /\ SeqHas(getRayForKing(b, q), pos)}

RaySumFriendOnly(b, pos, p) ==
  Cardinality({q \in RayHitters(b, pos) : ownerOf(b[q]) = ownerOf(p)})

RaySum(b, pos, p) ==
  LET hit == RayHitters(b, pos) IN
  Cardinality({q \in hit : ownerOf(b[q]) = ownerOf(p)})
    - Cardinality({q \in hit : ownerOf(b[q]) # ownerOf(p)})

valueAtUnclamped(b, pos) ==
  LET p == pieceAt(b, pos) IN
  IF p = NoPiece THEN 0 ELSE Len(p.counters) + RaySum(b, pos, p)

valueAt(b, pos) ==
  LET p == pieceAt(b, pos) IN
  IF p = NoPiece THEN 0
  ELSE LET v == Len(p.counters) + RaySum(b, pos, p) IN
       IF v <= 0 THEN 0 ELSE IF v >= 3 THEN 3 ELSE v

\* Board.tsx: the unclamped value shown on hover
fullValueAt(b, pos) ==
  LET p == pieceAt(b, pos) IN
  IF p = NoPiece THEN 0
  ELSE Len(p.counters) + RaySum(b, pos, p)

\* ---- the Cell-based variant of rules.ts (first half of the file) ----

RECURSIVE raySquaresFrom(_, _, _, _)
raySquaresFrom(r, c, dr, dc) ==
  IF ~inBounds(r, c) THEN << >>
  ELSE << <<r, c>> >> \o raySquaresFrom(r + dr, c + dc, dr, dc)

raySquares(start, dir) ==
  LET d == DIRS[dir] IN raySquaresFrom(start[1] + d[1], start[2] + d[2], d[1], d[2])

\* for (sq of path) { out.push(sq); if (piece) break }
RECURSIVE visiblePrefix(_, _, _)
visiblePrefix(b, path, i) ==
  IF i > Len(path) THEN << >>
  ELSE IF pieceAt(b, path[i]) # NoPiece THEN <<path[i]>>
  ELSE <<path[i]>> \o visiblePrefix(b, path, i + 1)

visibleSquares(b, start, dir) == visiblePrefix(b, raySquares(start, dir), 1)

Max(a, b) == IF a >= b THEN a ELSE b

Min(a, b) == IF a <= b THEN a ELSE b

clamp(n, lo, hi) == Max(lo, Min(hi, n))

baseValue(p) == Len(p.counters)

rayDelta(b, pos) ==
  LET target == pieceAt(b, pos) IN
  IF target = NoPiece THEN 0
  ELSE LET hit == {q \in DOMAIN b :
                     /\ isKing(b[q])
                     /\ b[q].arrowDir # "none"
                     /\ SeqHas(visibleSquares(b, q, b[q].arrowDir), pos)}
       IN Cardinality({q \in hit : ownerOf(b[q]) = ownerOf(target)})
            - Cardinality({q \in hit : ownerOf(b[q]) # ownerOf(target)})

\* rules.ts line 13: b[pos.r][pos.c].piece reads a property of undefined when
\* the row or the cell does not exist
pieceAt_cell_raises(pos) == ~inBounds(pos[1], pos[2])

valueAt_cell(b, pos) ==
  LET p == pieceAt(b, pos) IN
  IF p = NoPiece THEN 0 ELSE clamp(baseValue(p) + rayDelta(b, pos), 0, 3)

\* ------------------------------------------------------------------------
\* rules.ts: legality of one-step moves, captures and combines
\* ------------------------------------------------------------------------

Add(pos, d, k) == <<pos[1] + k * d[1], pos[2] + k * d[2]>>

neigh(from) ==
  << <<from[1] - 1, from[2] - 1>>, <<from[1] - 1, from[2]>>, <<from[1] - 1, from[2] + 1>>,
     <<from[1], from[2] - 1>>,                                <<from[1], from[2] + 1>>,
     <<from[1] + 1, from[2] - 1>>, <<from[1] + 1, from[2]>>, <<from[1] + 1, from[2] + 1>> >>

NoMoves == [moves |-> << >>, combines |-> << >>, captures |-> << >>]

captureAllowedAlways(tv, myVal) == TRUE

\* rules.ts line 370: if (tv <= myVal) captures.push(q)
captureAllowed(tv, myVal) == tv <= myVal

combineTargetWithKey(t, myOwner) == ~isKing(t) /\ ownerOf(t) = myOwner

combineTargetAny(t, myOwner) == ownerOf(t) = myOwner

\* rules.ts line 382: the target of a combine
combineTarget(t, myOwner) == ~isKing(t) /\ ownerOf(t) = myOwner /\ ~isKeyPiece(t)

legalMovesUngated(board, from) ==
  LET me == pieceAt(board, from)
      nb == SelectSeq(neigh(from), LAMBDA q : inBounds(q[1], q[2]))
  IN IF me = NoPiece THEN NoMoves
     ELSE [moves    |-> SelectSeq(nb, LAMBDA q : pieceAt(board, q) = NoPiece),
           captures |-> SelectSeq(nb, LAMBDA q : pieceAt(board, q) # NoPiece
                                                   /\ ownerOf(pieceAt(board, q)) # ownerOf(me)),
           combines |-> SelectSeq(nb, LAMBDA q : pieceAt(board, q) # NoPiece
                                                   /\ ownerOf(pieceAt(board, q)) = ownerOf(me))]

legalMovesFor(board, from) ==
  LET me == pieceAt(board, from) IN
  IF me = NoPiece THEN NoMoves
  ELSE
    LET myOwner == ownerOf(me)
        myVal   == valueAt(board, from)
        nb      == SelectSeq(neigh(from), LAMBDA q : inBounds(q[1], q[2]))
        isMove(q) == pieceAt(board, q) = NoPiece
        isCapture(q) ==
          LET t == pieceAt(board, q) IN
          /\ t # NoPiece
          /\ ownerOf(t) # myOwner
          /\ captureAllowed(valueAt(board, q), myVal)
        isCombine(q) ==
          LET t == pieceAt(board, q) IN
          /\ t # NoPiece
          /\ combineTarget(t, myOwner)
    IN [moves    |-> IF myVal >= 1 THEN SelectSeq(nb, isMove) ELSE << >>,
        captures |-> IF myVal >= 1 THEN SelectSeq(nb, isCapture) ELSE << >>,
        combines |-> IF myVal >= 1 /\ ~isKing(me) /\ ~isKeyPiece(me)
                     THEN SelectSeq(nb, isCombine) ELSE << >>]

\* ---- Cell-based variant: canCombine, canCapture ----

canCombine(mover, target) ==
  /\ Len(mover.counters) = 1
  /\ Len(target.counters) = 1
  /\ mover.counters[1].isKey # "true"
  /\ target.counters[1].isKey # "true"
  /\ ownerOf(mover) = ownerOf(target)

canCapture(b, from, to) ==
  LET atkP == pieceAt(b, from)
      defP == pieceAt(b, to)
  IN IF atkP = NoPiece \/ defP = NoPiece THEN FALSE
     ELSE IF ownerOf(atkP) = ownerOf(defP) THEN FALSE
     ELSE valueAt_cell(b, from) >= valueAt_cell(b, to)

canRotateInFreePhase(b, pos) ==
  LET p == pieceAt(b, pos) IN
  IF p = NoPiece \/ ~isKing(p) THEN FALSE ELSE valueAt_cell(b, pos) >= 2

\* ------------------------------------------------------------------------
\* moveGen.ts: king moves along the arrow
\* ------------------------------------------------------------------------

\* the while loop of the val >= 3 branch
RECURSIVE slideWalk(_, _, _, _, _, _, _)
slideWalk(board, r, c, dr, dc, val, turn) ==
  IF ~inBounds(r, c) THEN << >>
  ELSE LET q == <<r, c>>
           t == pieceAt(board, q)
       IN IF t = NoPiece
          THEN <<[type |-> "move", to |-> q]>> \o slideWalk(board, r + dr, c + dc, dr, dc, val, turn)
          ELSE IF ownerOf(t) # turn /\ valueAt(board, q) <= val
               THEN <<[type |-> "capture", to |-> q]>>
               ELSE << >>

\* generateKingArrowMoves without the test of the intermediate square
generateKingArrowMovesJump(board, pos, piece, val, turn) ==
  IF piece.arrowDir = "none" THEN << >>
  ELSE IF val = 2
  THEN IF ~inBounds(Add(pos, DIRS[piece.arrowDir], 2)[1], Add(pos, DIRS[piece.arrowDir], 2)[2])
       THEN << >>
       ELSE IF pieceAt(board, Add(pos, DIRS[piece.arrowDir], 2)) = NoPiece
       THEN <<[type |-> "move", to |-> Add(pos, DIRS[piece.arrowDir], 2)]>>
       ELSE IF /\ ownerOf(pieceAt(board, Add(pos, DIRS[piece.arrowDir], 2))) # turn
               /\ valueAt(board, Add(pos, DIRS[piece.arrowDir], 2)) <= val
       THEN <<[type |-> "capture", to |-> Add(pos, DIRS[piece.arrowDir], 2)]>>
       ELSE << >>
  ELSE IF val >= 3
  THEN slideWalk(board, pos[1] + DIRS[piece.arrowDir][1], pos[2] + DIRS[piece.arrowDir][2],
                 DIRS[piece.arrowDir][1], DIRS[piece.arrowDir][2], val, turn)
  ELSE << >>

generateKingArrowMoves(board, pos, piece, val, turn) ==
  IF piece.arrowDir = "none" THEN << >>
  ELSE
    LET d == DIRS[piece.arrowDir] IN
    IF val = 2 THEN
      LET mid == Add(pos, d, 1)
          dst == Add(pos, d, 2)
      IN IF inBounds(mid[1], mid[2]) /\ inBounds(dst[1], dst[2]) /\ pieceAt(board, mid) = NoPiece
         THEN LET t == pieceAt(board, dst) IN
              IF t = NoPiece THEN <<[type |-> "move", to |-> dst]>>
              ELSE IF ownerOf(t) # turn /\ valueAt(board, dst) <= val
                   THEN <<[type |-> "capture", to |-> dst]>>
                   ELSE << >>
         ELSE << >>
    ELSE IF val >= 3 THEN slideWalk(board, pos[1] + d[1], pos[2] + d[2], d[1], d[2], val, turn)
    ELSE << >>

\* ------------------------------------------------------------------------
\* scatter.ts: bases and validation of a king's scatter
\* ------------------------------------------------------------------------

\* the while loop of scatterBases: the empty squares before the first blocker
RECURSIVE slideEmpty(_, _, _, _, _)
slideEmpty(b, r, c, dr, dc) ==
  IF ~inBounds(r, c) THEN << >>
  ELSE IF pieceAt(b, <<r, c>>) # NoPiece THEN << >>
  ELSE << <<r, c>> >> \o slideEmpty(b, r + dr, c + dc, dr, dc)

\* scatterBases sliding at every value
scatterBasesAlways(b, from) ==
  IF pieceAt(b, from) = NoPiece \/ ~isKing(pieceAt(b, from)) \/ pieceAt(b, from).arrowDir = "none"
  THEN << >>
  ELSE <<from>> \o slideEmpty(b, from[1] + DIRS[pieceAt(b, from).arrowDir][1],
                              from[2] + DIRS[pieceAt(b, from).arrowDir][2],
                              DIRS[pieceAt(b, from).arrowDir][1],
                              DIRS[pieceAt(b, from).arrowDir][2])

scatterBases(b, from) ==
  LET me == pieceAt(b, from) IN
  IF me = NoPiece \/ ~isKing(me) \/ me.arrowDir = "none" THEN << >>
  ELSE LET v == valueAt(b, from)
           d == DIRS[me.arrowDir]
       IN IF v >= 3
          THEN <<from>> \o slideEmpty(b, from[1] + d[1], from[2] + d[2], d[1], d[2])
          ELSE <<from>>

\* the enemy values on the two landing squares (scatter.ts lines 83-85)
enemySumOf(b, me, l1, l2) ==
  LET t1 == pieceAt(b, l1)
      t2 == pieceAt(b, l2)
  IN (IF t1 # NoPiece /\ ownerOf(t1) # ownerOf(me) THEN valueAt(b, l1) ELSE 0)
       + (IF t2 # NoPiece /\ ownerOf(t2) # ownerOf(me) THEN valueAt(b, l2) ELSE 0)

perTargetWithin(b, me, l1, l2, myVal) ==
  LET t1 == pieceAt(b, l1)
      t2 == pieceAt(b, l2)
  IN /\ (t1 # NoPiece /\ ownerOf(t1) # ownerOf(me)) => valueAt(b, l1) <= myVal
     /\ (t2 # NoPiece /\ ownerOf(t2) # ownerOf(me)) => valueAt(b, l2) <= myVal

\* scatter.ts line 90: the capture budget
budgetWithin(b, me, l1, l2, myVal) == enemySumOf(b, me, l1, l2) <= myVal

validateScatterOwnSquare(b, from, base) ==
  LET me == pieceAt(b, from) IN
  IF me = NoPiece \/ ~isKing(me) \/ me.arrowDir = "none"
  THEN [l1 |-> from, l2 |-> from, can |-> FALSE, reason |-> "Not a king with an arrow."]
  ELSE
    LET myVal == valueAt(b, from) IN
    IF myVal < 2
    THEN [l1 |-> from, l2 |-> from, can |-> FALSE, reason |-> "Value < 2 cannot scatter."]
    ELSE IF base # from
    THEN [l1 |-> from, l2 |-> from, can |-> FALSE,
          reason |-> "V2 can only scatter from current square."]
    ELSE
      LET d  == DIRS[me.arrowDir]
          l1 == Add(base, d, 1)
          l2 == Add(base, d, 2)
          t1 == pieceAt(b, l1)
          t2 == pieceAt(b, l2)
      IN IF ~inBounds(l1[1], l1[2]) \/ ~inBounds(l2[1], l2[2])
         THEN [l1 |-> l1, l2 |-> l2, can |-> FALSE, reason |-> "Landing squares out of bounds."]
         ELSE IF (t1 # NoPiece /\ ownerOf(t1) = ownerOf(me))
                   \/ (t2 # NoPiece /\ ownerOf(t2) = ownerOf(me))
         THEN [l1 |-> l1, l2 |-> l2, can |-> FALSE, reason |-> "Cannot land on friendly piece."]
         ELSE IF ~budgetWithin(b, me, l1, l2, myVal)
         THEN [l1 |-> l1, l2 |-> l2, can |-> FALSE, reason |-> "Capture exceeds king value."]
         ELSE [l1 |-> l1, l2 |-> l2, can |-> TRUE, reason |-> "undefined"]

validateScatter(b, from, base) ==
  LET me == pieceAt(b, from) IN
  IF me = NoPiece \/ ~isKing(me) \/ me.arrowDir = "none"
  THEN [l1 |-> from, l2 |-> from, can |-> FALSE, reason |-> "Not a king with an arrow."]
  ELSE
    LET myVal == valueAt(b, from) IN
    IF myVal < 2
    THEN [l1 |-> from, l2 |-> from, can |-> FALSE, reason |-> "Value < 2 cannot scatter."]
    ELSE IF myVal = 2 /\ base # from
    THEN [l1 |-> from, l2 |-> from, can |-> FALSE,
          reason |-> "V2 can only scatter from current square."]
    ELSE
      LET d  == DIRS[me.arrowDir]
          l1 == Add(base, d, 1)
          l2 == Add(base, d, 2)
          t1 == pieceAt(b, l1)
          t2 == pieceAt(b, l2)
      IN IF ~inBounds(l1[1], l1[2]) \/ ~inBounds(l2[1], l2[2])
         THEN [l1 |-> l1, l2 |-> l2, can |-> FALSE, reason |-> "Landing squares out of bounds."]
         ELSE IF (t1 # NoPiece /\ ownerOf(t1) = ownerOf(me))
                   \/ (t2 # NoPiece /\ ownerOf(t2) = ownerOf(me))
         THEN [l1 |-> l1, l2 |-> l2, can |-> FALSE, reason |-> "Cannot land on friendly piece."]
         ELSE IF ~budgetWithin(b, me, l1, l2, myVal)
         THEN [l1 |-> l1, l2 |-> l2, can |-> FALSE, reason |-> "Capture exceeds king value."]
         ELSE [l1 |-> l1, l2 |-> l2, can |-> TRUE, reason |-> "undefined"]

\* ---- other variants of the scatter validation ----

\* the scatter validation kept beside the Cell-based rules
validateScatter_cell(b, from, base) ==
  LET p == pieceAt(b, from) IN
  IF p = NoPiece \/ ~isKing(p) \/ p.arrowDir = "none"
  THEN [l1 |-> base, l2 |-> base, can |-> FALSE, reason |-> "not-king"]
  ELSE
    LET v == valueAt_cell(b, from) IN
    IF v < 2 THEN [l1 |-> base, l2 |-> base, can |-> FALSE, reason |-> "too-low"]
    ELSE
      LET d  == DIRS[p.arrowDir]
          l1 == Add(base, d, 1)
          l2 == Add(base, d, 2)
          q1 == pieceAt(b, l1)
          q2 == pieceAt(b, l2)
          me == ownerOf(p)
          totalEnemyValue ==
            (IF q1 # NoPiece /\ ownerOf(q1) # me THEN valueAt_cell(b, l1) ELSE 0)
              + (IF q2 # NoPiece /\ ownerOf(q2) # me THEN valueAt_cell(b, l2) ELSE 0)
      IN IF ~inBounds(l1[1], l1[2]) \/ ~inBounds(l2[1], l2[2])
         THEN [l1 |-> l1, l2 |-> l2, can |-> FALSE, reason |-> "offboard"]
         ELSE IF (q1 # NoPiece /\ ownerOf(q1) = me) \/ (q2 # NoPiece /\ ownerOf(q2) = me)
         THEN [l1 |-> l1, l2 |-> l2, can |-> FALSE, reason |-> "ally-block"]
         ELSE IF q1 = NoPiece /\ q2 = NoPiece
         THEN [l1 |-> l1, l2 |-> l2, can |-> TRUE, reason |-> "undefined"]
         ELSE IF totalEnemyValue <= v
         THEN [l1 |-> l1, l2 |-> l2, can |-> TRUE, reason |-> "undefined"]
         ELSE [l1 |-> l1, l2 |-> l2, can |-> FALSE, reason |-> "capture-sum-exceeds"]

slideSquares(b, from, dir) ==
  LET d == DIRS[dir] IN slideEmpty(b, from[1] + d[1], from[2] + d[2], d[1], d[2])

\* the budget loop of scatterTargets over the two landing cells:
\* "ally" and "over" end the loop, otherwise the budget left
scatterCell(b, piece, sq, budget) ==
  LET tp == pieceAt(b, sq) IN
  IF budget < 0 THEN budget
  ELSE IF tp = NoPiece THEN budget
  ELSE IF ownerOf(tp) = ownerOf(piece) THEN -1
  ELSE budget - valueAt_cell(b, sq)

scatterTargets(b, from, piece) ==
  LET d     == DIRS[piece.arrowDir]
      v     == valueAt_cell(b, from)
      bases == IF v = 2 THEN <<from>> ELSE <<from>> \o slideSquares(b, from, piece.arrowDir)
      ok(base) ==
        LET a  == Add(base, d, 1)
            b2 == Add(base, d, 2)
        IN /\ inBounds(a[1], a[2])
           /\ inBounds(b2[1], b2[2])
           /\ scatterCell(b, piece, b2, scatterCell(b, piece, a, v)) >= 0
      kept == SelectSeq(bases, ok)
  IN [i \in 1..Len(kept) |->
        [base |-> kept[i], l1 |-> Add(kept[i], d, 1), l2 |-> Add(kept[i], d, 2)]]

\* Board.tsx: the orientation dots are offered (canOrientNow)
canOrientNow(b, sel, player) ==
  IF sel = <<-1, -1>> THEN FALSE
  ELSE LET p == pieceAt(b, sel) IN
       /\ p # NoPiece
       /\ isKing(p)
       /\ ownerOf(p) = player
       /\ valueAt(b, sel) >= 2

\* ---- Cell-based variant: legalMovesFor ----

NoMoves_cell == [moves |-> << >>, captures |-> << >>, combines |-> << >>, scatters |-> << >>,
                 rotations |-> << >>]

legalMovesFor_cell(b, from) ==
  LET piece == pieceAt(b, from) IN
  IF piece = NoPiece THEN NoMoves_cell
  ELSE
    LET owner == ownerOf(piece)
        v     == valueAt_cell(b, from)
    IN
    IF v = 0 THEN NoMoves_cell
    ELSE
      LET steps1 == SelectSeq([i \in 1..Len(DIR_ORDER) |-> Add(from, DIRS[DIR_ORDER[i]], 1)],
                              LAMBDA q : inBounds(q[1], q[2]))
          kingExtras == isKing(piece) /\ piece.arrowDir # "none"
          d  == IF kingExtras THEN DIRS[piece.arrowDir] ELSE <<0, 0>>
          s1 == Add(from, d, 1)
          s2 == Add(from, d, 2)
          twoOn == kingExtras /\ v >= 2 /\ inBounds(s1[1], s1[2]) /\ inBounds(s2[1], s2[2])
          twoMove == IF twoOn /\ pieceAt(b, s1) = NoPiece /\ pieceAt(b, s2) = NoPiece
                     THEN <<s2>> ELSE << >>
          twoCapture == IF twoOn /\ pieceAt(b, s1) = NoPiece /\ pieceAt(b, s2) # NoPiece
                           /\ ownerOf(pieceAt(b, s2)) # owner /\ canCapture(b, from, s2)
                        THEN <<s2>> ELSE << >>
          \* every square of the slide path is empty, so the loop pushes them all
          slide == IF kingExtras /\ v = 3 THEN slideSquares(b, from, piece.arrowDir) ELSE << >>
      IN [moves     |-> SelectSeq(steps1, LAMBDA q : pieceAt(b, q) = NoPiece) \o twoMove \o slide,
          captures  |-> SelectSeq(steps1, LAMBDA q : pieceAt(b, q) # NoPiece
                                                      /\ ownerOf(pieceAt(b, q)) # owner
                                                      /\ canCapture(b, from, q)) \o twoCapture,
          combines  |-> SelectSeq(steps1, LAMBDA q : pieceAt(b, q) # NoPiece
                                                      /\ ownerOf(pieceAt(b, q)) = owner
                                                      /\ canCombine(piece, pieceAt(b, q))),
          scatters  |-> IF kingExtras /\ v >= 2 THEN scatterTargets(b, from, piece) ELSE << >>,
          rotations |-> <<"ANY">>]

\* ------------------------------------------------------------------------
\* gameStore.ts: the highlights computed by select
\* ------------------------------------------------------------------------

ADJ == << <<-1, -1>>, <<-1, 0>>, <<-1, 1>>, <<0, -1>>, <<0, 1>>, <<1, -1>>, <<1, 0>>, <<1, 1>> >>

\* the highlight pushed for one adjacent square, as a sequence of 0 or 1
adjHighlight(b, me, q, player) ==
  LET t == pieceAt(b, q) IN
  IF ~inBounds(q[1], q[2]) THEN << >>
  ELSE IF t = NoPiece THEN <<[type |-> "move", to |-> q]>>
  ELSE IF ownerOf(t) = player
       THEN IF ~isKing(me) /\ ~isKeyPiece(me) /\ ~isKing(t) /\ ~isKeyPiece(t)
            THEN <<[type |-> "combine", to |-> q]>>
            ELSE << >>
       ELSE <<[type |-> "capture", to |-> q]>>

RECURSIVE adjHighlights(_, _, _, _, _)
adjHighlights(b, me, pos, player, i) ==
  IF i > Len(ADJ) THEN << >>
  ELSE adjHighlight(b, me, Add(pos, ADJ[i], 1), player)
         \o adjHighlights(b, me, pos, player, i + 1)

\* the list hs of select for a piece of the player to move at pos
highlightsFor(b, pos, player) ==
  LET me  == pieceAt(b, pos)
      val == valueAt(b, pos)
  IN (IF val >= 1 THEN adjHighlights(b, me, pos, player, 1) ELSE << >>)
       \o (IF isKing(me) /\ me.arrowDir # "none"
           THEN generateKingArrowMoves(b, pos, me, val, player)
           ELSE << >>)

\* ------------------------------------------------------------------------
\* State
\* ------------------------------------------------------------------------

VARIABLES
  heap,        \* the piece objects ever allocated: heap[id] is the object's current value
  board,       \* the store's board: for each occupied square the id of its piece object
  turn,        \* the store's turn
  selected,    \* the store's selected square, or NoCoord
  highlights,  \* the store's highlights of the selected piece
  history,     \* the store's undo snapshots [board, turn]
  hyp,         \* the board the AI's applyMoveClone returned last (ids), or the empty board
  given,       \* the boards handed to an action application, each with its value at the call
  act,         \* the last operation applied and its arguments
  result,      \* the last query and what it returned
  rotateMode,  \* the board view's rotate mode
  previewDir,  \* the board view's rotate preview direction, or "none"
  steps,       \* number of operations run so far
  inbox,       \* the messages posted to the AI worker and not yet delivered
  outbox,      \* the messages the AI worker posted back
  handled,     \* the messages the AI worker's listeners have run for
  animTimer,   \* the board view's pending animation timeout: what it will commit
  canUndo      \* the store's canUndo flag, which enables the Undo button

vars == <<heap, board, turn, selected, highlights, history, hyp, given, act, result,
          rotateMode, previewDir, steps, inbox, outbox, handled, animTimer, canUndo>>

NoCoord == <<-1, -1>>

NoAct == [kind |-> "none", on |-> "none", m |-> "none", from |-> NoCoord, to |-> NoCoord,
          l2 |-> NoCoord, flag |-> FALSE, dir |-> "none"]

NoResult == [fn |-> "none", from |-> NoCoord, base |-> NoCoord, out |-> 0, err |-> "none"]

\* The value of a board of object ids under a heap.
Deref(h, rb) == [sq \in DOMAIN rb |-> h[rb[sq]]]

B == Deref(heap, board)

\* ------------------------------------------------------------------------
\* Boards the checks start from
\* ------------------------------------------------------------------------

MaxPieces == 3

\* The squares that hold pieces in a starting board: a corner of the board,
\* three squares of the top row and one diagonal neighbour.
Region == {<<0, 0>>, <<0, 1>>, <<0, 2>>, <<1, 1>>}

makeKing(owner, dir) ==
  [counters |-> <<Counter(owner, "false"), Counter(owner, "false")>>, arrowDir |-> dir]

Kinds ==
  {makeSingle(o, k) : o \in Players, k \in BOOLEAN}
    \cup {makeKing(o, d) : o \in Players, d \in Dirs}

\* The line from sq along d passes through another square of the region.
PointsInto(sq, d) == \E k \in 1..BoardSize : Add(sq, DIRS[d], k) \in Region

\* One direction of sq that aims at no square of the region.
awayDir(sq) == DIR_ORDER[CHOOSE i \in 1..Len(DIR_ORDER) :
                   /\ ~PointsInto(sq, DIR_ORDER[i])
                   /\ \A j \in 1..(i - 1) : PointsInto(sq, DIR_ORDER[j])]

\* On a full starting board a king aims at another square of the region or
\* in the one direction awayDir, and no single is a key.
AimedKinds ==
  [sq \in Region |->
     {makeSingle(o, FALSE) : o \in Players}
       \cup {makeKing(o, d) : o \in Players,
                              d \in {e \in Dirs : PointsInto(sq, e) \/ e = awayDir(sq)}}]

\* Every board of at most two pieces of any kind on the region, and every
\* board of up to MaxPieces pieces of aimed kinds.
Placements ==
  UNION {IF Cardinality(S) <= 2
         THEN [S -> Kinds]
         ELSE {pl \in [S -> UNION {AimedKinds[sq] : sq \in S}] :
                 \A sq \in S : pl[sq] \in AimedKinds[sq]} :
         S \in {T \in SUBSET Region : Cardinality(T) <= MaxPieces}}

\* row-major position of a square among the squares of S (1-based)
rank(S, sq) ==
  Cardinality({t \in S : t[1] * BoardSize + t[2] < sq[1] * BoardSize + sq[2]}) + 1

squareOfRank(S, k) == CHOOSE sq \in S : rank(S, sq) = k

HeapOf(pl) == [k \in 1..Cardinality(DOMAIN pl) |-> pl[squareOfRank(DOMAIN pl, k)]]

RefsOf(pl) == [sq \in DOMAIN pl |-> rank(DOMAIN pl, sq)]

Idle ==
  /\ turn = "Black"
  /\ selected = NoCoord
  /\ highlights = << >>
  /\ history = << >>
  /\ hyp = emptyBoard
  /\ given = << >>
  /\ act = NoAct
  /\ result = NoResult
  /\ rotateMode = FALSE
  /\ previewDir = "none"
  /\ steps = 0
  /\ inbox = << >>
  /\ outbox = << >>
  /\ handled = << >>
  /\ animTimer = NoAct
  /\ canUndo = FALSE

\* ------------------------------------------------------------------------
\* SpecRules: the rules engine queried on every starting board
\* ------------------------------------------------------------------------

InitRules ==
  /\ \E pl \in Placements : heap = HeapOf(pl) /\ board = RefsOf(pl)
  /\ Idle

Answer(fn, from, base, out) ==
  /\ result = NoResult
  /\ result' = [fn |-> fn, from |-> from, base |-> base, out |-> out, err |-> "none"]
  /\ UNCHANGED <<heap, board, turn, selected, highlights, history, hyp, given, act,
                 rotateMode, previewDir, steps, inbox, outbox, handled, animTimer, canUndo>>

\* the call did not return: it raised err
Throw(fn, from, err) ==
  /\ result = NoResult
  /\ result' = [fn |-> fn, from |-> from, base |-> from, out |-> 0, err |-> err]
  /\ UNCHANGED <<heap, board, turn, selected, highlights, history, hyp, given, act,
                 rotateMode, previewDir, steps, inbox, outbox, handled, animTimer, canUndo>>

QueryFrom == {<<0, 1>>}

QueryValue == \E pos \in QueryFrom : Answer("valueAt", pos, pos, valueAt(B, pos))

QueryFullValue == \E pos \in QueryFrom : Answer("fullValueAt", pos, pos, fullValueAt(B, pos))

QueryRay == \E pos \in QueryFrom : Answer("getRayForKing", pos, pos, getRayForKing(B, pos))

QueryLegal == \E pos \in QueryFrom : Answer("legalMovesFor", pos, pos, legalMovesFor(B, pos))

QueryArrowMoves ==
  \E pos \in QueryFrom :
    /\ pieceAt(B, pos) # NoPiece
    /\ isKing(pieceAt(B, pos))
    /\ Answer("generateKingArrowMoves", pos, pos,
              generateKingArrowMoves(B, pos, pieceAt(B, pos), valueAt(B, pos),
                                     ownerOf(pieceAt(B, pos))))

ScatterFrom == {<<0, 0>>}

ScatterBase == {<<0, 0>>, <<0, 1>>}

QueryScatterBases == \E pos \in ScatterFrom : Answer("scatterBases", pos, pos, scatterBases(B, pos))

QueryScatter ==
  \E pos \in ScatterFrom, base \in ScatterBase :
    Answer("validateScatter", pos, base, validateScatter(B, pos, base))

\* coordinates outside the board: a row above it, a column right of it
OffBoard == {<<-1, 0>>, <<0, BoardSize>>}

QueryOffBoard ==
  \E pos \in OffBoard :
    \/ Answer("valueAt", pos, pos, valueAt(B, pos))
    \/ Answer("legalMovesFor", pos, pos, legalMovesFor(B, pos))
    \/ Answer("scatterBases", pos, pos, scatterBases(B, pos))
    \/ Answer("validateScatter", pos, pos, validateScatter(B, pos, pos))

\* the Cell-based valueAt and legalMovesFor: both start with pieceAt(b, pos)
QueryCell ==
  \E pos \in QueryFrom \cup OffBoard :
    IF pieceAt_cell_raises(pos)
    THEN \/ Throw("valueAt_cell", pos, "TypeError")
         \/ Throw("legalMovesFor_cell", pos, "TypeError")
    ELSE \/ Answer("valueAt_cell", pos, pos, valueAt_cell(B, pos))
         \/ Answer("legalMovesFor_cell", pos, pos, legalMovesFor_cell(B, pos))

NextRules ==
  \/ QueryOffBoard
  \/ QueryCell
  \/ QueryValue
  \/ QueryFullValue
  \/ QueryRay
  \/ QueryLegal
  \/ QueryArrowMoves
  \/ QueryScatterBases
  \/ QueryScatter

SpecRules == InitRules /\ [][NextRules]_vars

\* C1: valueAt is an integer in 0..3 on every square of every board, and 0 on
\* an empty square; valueAt answers the same through the query.
ValueClamped ==
  LET b == B IN
  /\ \A pos \in Squares :
       /\ valueAt(b, pos) \in 0..3
       /\ valueAt_cell(b, pos) \in 0..3
       /\ pieceAt(b, pos) = NoPiece => valueAt(b, pos) = 0 /\ valueAt_cell(b, pos) = 0
  /\ result.fn = "valueAt" => result.out \in 0..3

\* a clamp happened: the queried piece's unclamped value is above 3
ValueClampedWitness ==
  /\ result.fn = "valueAt"
  /\ pieceAt(B, result.from) # NoPiece
  /\ fullValueAt(B, result.from) > 3
  /\ result.out = 3

\* ---- C2 ----

\* The king at q has an arrow and pos lies on the line from q along it with
\* only empty squares in between.
StatedRayHits(b, q, pos) ==
  /\ q \in DOMAIN b
  /\ Len(b[q].counters) = 2
  /\ b[q].arrowDir # "none"
  /\ \E k \in 1..BoardSize :
       /\ pos = <<q[1] + k * DIRS[b[q].arrowDir][1], q[2] + k * DIRS[b[q].arrowDir][2]>>
       /\ \A j \in 1..(k - 1) :
            <<q[1] + j * DIRS[b[q].arrowDir][1], q[2] + j * DIRS[b[q].arrowDir][2]>> \notin DOMAIN b

StatedFullValue(b, pos) ==
  LET mine == b[pos].counters[1].owner
      hit  == {q \in DOMAIN b \ {pos} : StatedRayHits(b, q, pos)}
  IN Len(b[pos].counters)
       + Cardinality({q \in hit : b[q].counters[1].owner = mine})
       - Cardinality({q \in hit : b[q].counters[1].owner # mine})

StatedClamp(x) == IF x < 0 THEN 0 ELSE IF x > 3 THEN 3 ELSE x

\* C2: on every occupied square fullValueAt is the counter count plus the
\* friendly and minus the enemy OTHER kings whose ray reaches the square, and
\* valueAt (both variants) is that number clamped to 0..3.
ValueIsClampedFull ==
  LET b == B IN
  /\ \A pos \in DOMAIN b :
       /\ fullValueAt(b, pos) = StatedFullValue(b, pos)
       /\ valueAt(b, pos) = StatedClamp(fullValueAt(b, pos))
       /\ valueAt_cell(b, pos) = StatedClamp(StatedFullValue(b, pos))
  /\ (result.fn = "fullValueAt" /\ result.from \in DOMAIN b)
       => result.out = StatedFullValue(b, result.from)

\* two enemy rays take a single below zero, and valueAt answers 0
ValueIsClampedFullWitness ==
  /\ result.fn = "fullValueAt"
  /\ result.from \in DOMAIN B
  /\ result.out = -1
  /\ valueAt(B, result.from) = 0

\* ---- C3 ----

StatedRayShape(b, origin, ray) ==
  IF origin \notin DOMAIN b \/ Len(b[origin].counters) # 2 \/ b[origin].arrowDir = "none"
  THEN ray = << >>
  ELSE LET d == DIRS[b[origin].arrowDir]
           n == Len(ray)
       IN /\ \A i \in 1..n :
               /\ ray[i] = <<origin[1] + i * d[1], origin[2] + i * d[2]>>
               /\ ray[i] \in Squares
               /\ ray[i] # origin
          /\ \A i \in 1..(n - 1) : ray[i] \notin DOMAIN b
          /\ \/ <<origin[1] + (n + 1) * d[1], origin[2] + (n + 1) * d[2]>> \notin Squares
             \/ (n >= 1 /\ ray[n] \in DOMAIN b)

\* C3: getRayForKing lists the squares from the origin along the arrow in
\* order, without the origin, up to the board edge or up to and including the
\* first occupied square and nothing beyond it; it is empty for an origin
\* that is empty, a single or a king without an arrow.  visibleSquares of a
\* king's arrow is the same list.
RayShape ==
  LET b == B IN
  /\ \A origin \in Squares :
       /\ StatedRayShape(b, origin, getRayForKing(b, origin))
       /\ (origin \in DOMAIN b /\ b[origin].arrowDir # "none")
            => StatedRayShape(b, origin, visibleSquares(b, origin, b[origin].arrowDir))
  /\ result.fn = "getRayForKing" => StatedRayShape(b, result.from, result.out)

\* the ray of the queried king ends on a piece with board squares behind it
RayShapeWitness ==
  /\ result.fn = "getRayForKing"
  /\ Len(result.out) >= 1
  /\ result.out[Len(result.out)] \in DOMAIN B
  /\ LET d == DIRS[B[result.from].arrowDir]
         n == Len(result.out)
     IN <<result.from[1] + (n + 1) * d[1], result.from[2] + (n + 1) * d[2]>> \in Squares

\* ---- C4 ----

StatedAdjacent(a, b) ==
  /\ a # b
  /\ a[1] - b[1] \in {-1, 0, 1}
  /\ a[2] - b[2] \in {-1, 0, 1}

\* C4: for a piece of value >= 1 and an adjacent enemy piece, the enemy's
\* square is among the captures of legalMovesFor exactly when the enemy's
\* value is at most the mover's value (so a tie is a capture and a stronger
\* defender never is); canCapture and the Cell-based legalMovesFor agree.
CaptureIffNotStronger ==
  LET b == B IN
  \A from \in DOMAIN b :
    valueAt(b, from) >= 1 =>
      LET caps  == legalMovesFor(b, from).captures
          capsC == legalMovesFor_cell(b, from).captures
          mine  == valueAt(b, from)
      IN \A to \in DOMAIN b :
           (StatedAdjacent(from, to) /\ b[to].counters[1].owner # b[from].counters[1].owner)
           => /\ SeqHas(caps, to) <=> (valueAt(b, to) <= mine)
              /\ canCapture(b, from, to) <=> (valueAt(b, to) <= mine)
              /\ SeqHas(capsC, to) <=> (valueAt(b, to) <= mine)

\* the queried piece captures a neighbour of equal value
CaptureIffNotStrongerWitness ==
  /\ result.fn = "legalMovesFor"
  /\ \E i \in 1..Len(result.out.captures) :
       /\ StatedAdjacent(result.from, result.out.captures[i])
       /\ valueAt(B, result.out.captures[i]) = valueAt(B, result.from)
       /\ valueAt(B, result.from) >= 1

\* ---- C5 ----

StatedPlainSingle(p) == Len(p.counters) = 1 /\ p.counters[1].isKey # "true"

StatedCombinePair(b, from, t) ==
  /\ t \in DOMAIN b
  /\ StatedPlainSingle(b[from])
  /\ StatedPlainSingle(b[t])
  /\ b[from].counters[1].owner = b[t].counters[1].owner

\* C5: a square is a combine destination of from (in legalMovesFor, in its
\* Cell-based variant, among the highlights of select, or by canCombine) only
\* if mover and target are both singles without a key and of one owner.
CombineOnlyPlainSingles ==
  LET b == B IN
  \A from \in DOMAIN b :
    LET combs  == legalMovesFor(b, from).combines
        combsC == legalMovesFor_cell(b, from).combines
        hs     == highlightsFor(b, from, ownerOf(b[from]))
    IN /\ \A i \in 1..Len(combs) : StatedCombinePair(b, from, combs[i])
       /\ \A i \in 1..Len(combsC) : StatedCombinePair(b, from, combsC[i])
       /\ \A i \in 1..Len(hs) :
            hs[i].type = "combine" => StatedCombinePair(b, from, hs[i].to)
       /\ \A t \in DOMAIN b :
            canCombine(b[from], b[t]) => StatedCombinePair(b, from, t)

\* the queried single may combine with one friendly neighbour and not with
\* another, which is a king or a key
CombineOnlyPlainSinglesWitness ==
  /\ result.fn = "legalMovesFor"
  /\ Len(result.out.combines) >= 1
  /\ \E t \in DOMAIN B :
       /\ StatedAdjacent(result.from, t)
       /\ B[t].counters[1].owner = B[result.from].counters[1].owner
       /\ ~SeqHas(result.out.combines, t)

\* ---- C6 ----

StatedEnemySum(b, from, l1, l2) ==
  (IF l1 \in DOMAIN b /\ b[l1].counters[1].owner # b[from].counters[1].owner
   THEN valueAt(b, l1) ELSE 0)
    + (IF l2 \in DOMAIN b /\ b[l2].counters[1].owner # b[from].counters[1].owner
       THEN valueAt(b, l2) ELSE 0)

StatedLandingsFree(b, from, l1, l2) ==
  /\ l1 \in Squares
  /\ l2 \in Squares
  /\ l1 \in DOMAIN b => b[l1].counters[1].owner # b[from].counters[1].owner
  /\ l2 \in DOMAIN b => b[l2].counters[1].owner # b[from].counters[1].owner

StatedScatterKing(b, from) ==
  /\ from \in DOMAIN b
  /\ Len(b[from].counters) = 2
  /\ b[from].arrowDir # "none"
  /\ valueAt(b, from) >= 2

StatedLanding(b, from, base, k) ==
  <<base[1] + k * DIRS[b[from].arrowDir][1], base[2] + k * DIRS[b[from].arrowDir][2]>>

\* the bases looked at: every square within two steps of a square of the
\* region, so that each landing square on a piece has its bases included
StatedBases ==
  {sq \in Squares : \E t \in Region : sq[1] - t[1] \in -2..2 /\ sq[2] - t[2] \in -2..2}

CopyCellsNoArrow(h, rb) ==
  LET S == DOMAIN rb IN
  [heap |-> h \o [k \in 1..Cardinality(S) |->
                    [h[rb[squareOfRank(S, k)]] EXCEPT !.arrowDir = "none"]],
   refs |-> [sq \in S |-> Len(h) + rank(S, sq)]]

CopyCells(h, rb) ==
  LET S == DOMAIN rb IN
  [heap |-> h \o [k \in 1..Cardinality(S) |-> h[rb[squareOfRank(S, k)]]],
   refs |-> [sq \in S |-> Len(h) + rank(S, sq)]]

cloneBoardShared(h, rb) == [heap |-> h, refs |-> rb]

\* greedy.ts cloneBoard
cloneBoard(h, rb) == CopyCells(h, rb)

\* gameStore.ts cloneBoard
cloneBoard_store(h, rb) == CopyCells(h, rb)

\* next[sq.r][sq.c] = <object id>
setCell(rb, sq, id) == [x \in DOMAIN rb \cup {sq} |-> IF x = sq THEN id ELSE rb[x]]

\* next[sq.r][sq.c] = null
clearCell(rb, sq) == [x \in DOMAIN rb \ {sq} |-> rb[x]]

sign(x) == IF x > 0 THEN 1 ELSE IF x < 0 THEN -1 ELSE 0

DIR_FROM_DELTA_transposed(dr, dc) ==
  IF \E d \in Dirs : DIRS[d] = <<dc, dr>>
  THEN CHOOSE d \in Dirs : DIRS[d] = <<dc, dr>>
  ELSE "none"

\* DIR_FROM_DELTA[`${dr},${dc}`]: undefined for "0,0"
DIR_FROM_DELTA(dr, dc) ==
  IF \E d \in Dirs : DIRS[d] = <<dr, dc>>
  THEN CHOOSE d \in Dirs : DIRS[d] = <<dr, dc>>
  ELSE "none"

dirFromDelta(a, b) == DIR_FROM_DELTA(sign(b[1] - a[1]), sign(b[2] - a[2]))

\* DIR_ORDER[(idx + 1) % 8] for CW, DIR_ORDER[(idx + 7) % 8] for CCW
turnDir(d, way) ==
  IF way = "CW" THEN DIR_ORDER[((indexOf(d) - 1 + 1) % 8) + 1]
  ELSE DIR_ORDER[((indexOf(d) - 1 + 7) % 8) + 1]

nextCW(d) == DIR_ORDER[((indexOf(d) - 1 + 1) % 8) + 1]

\* a new single placed by a scatter: { counters: [{ owner }] }
\* a scatter that produced key pieces
scatterKeySingle(owner) == [counters |-> <<Counter(owner, "true")>>, arrowDir |-> "none"]

scatterSingle(owner) == [counters |-> <<Counter(owner, "undefined")>>, arrowDir |-> "none"]

\* ------------------------------------------------------------------------
\* The operations record what they were given
\* ------------------------------------------------------------------------

Kept(rb, val) == [refs |-> rb, val |-> val]

\* an operation of the history-keeping store, which sets canUndo itself
StampStore(a) == act' = a /\ steps' = steps + 1 /\ UNCHANGED <<inbox, outbox, handled>>

Stamp(a) == StampStore(a) /\ UNCHANGED canUndo

\* ------------------------------------------------------------------------
\* gameStore.ts: the store's actions
\* ------------------------------------------------------------------------

select(pos) ==
  /\ Stamp([NoAct EXCEPT !.kind = "select", !.on = "store", !.from = pos])
  /\ LET b == B IN
     IF pos = NoCoord \/ pieceAt(b, pos) = NoPiece \/ ownerOf(pieceAt(b, pos)) # turn
     THEN selected' = NoCoord /\ highlights' = << >>
     ELSE selected' = pos /\ highlights' = highlightsFor(b, pos, turn)
  /\ UNCHANGED <<heap, board, turn, history, hyp, given, result, rotateMode, previewDir>>

\* what actMove builds: the copy of the board with the OLD piece object put
\* on `to`, and the snapshot pushed on the history
actMove(from, to, isCapture) ==
  /\ StampStore([NoAct EXCEPT !.kind = "actMove", !.on = "store", !.from = from, !.to = to,
                         !.flag = isCapture])
  /\ IF pieceAt(B, from) = NoPiece
     THEN UNCHANGED <<heap, board, turn, selected, highlights, history, given, canUndo>>
     ELSE LET c1   == cloneBoard_store(heap, board)
              n0   == IF isCapture THEN clearCell(c1.refs, to) ELSE c1.refs
              next == clearCell(setCell(n0, to, board[from]), from)
              snap == cloneBoard_store(c1.heap, board)
          IN /\ heap' = snap.heap
             /\ board' = next
             /\ history' = Append(history, [board |-> snap.refs, turn |-> turn])
             /\ canUndo' = TRUE
             /\ selected' = NoCoord
             /\ highlights' = << >>
             /\ turn' = other(turn)
             /\ given' = given \o <<Kept(board, B), Kept(snap.refs, B)>>
  /\ UNCHANGED <<hyp, result, rotateMode, previewDir>>

actCombine(from, onto) ==
  /\ StampStore([NoAct EXCEPT !.kind = "actCombine", !.on = "store", !.from = from, !.to = onto])
  /\ LET a == pieceAt(B, from)
         b == pieceAt(B, onto)
     IN IF \/ a = NoPiece \/ b = NoPiece
           \/ isKing(a) \/ isKing(b) \/ isKeyPiece(a) \/ isKeyPiece(b)
           \/ ownerOf(a) # ownerOf(b)
        THEN UNCHANGED <<heap, board, turn, selected, highlights, history, given, canUndo>>
        ELSE LET arrowDir == DIR_FROM_DELTA(sign(onto[1] - from[1]), sign(onto[2] - from[2]))
                 c1   == cloneBoard_store(heap, board)
                 king == [counters |-> b.counters \o a.counters, arrowDir |-> arrowDir]
                 h1   == Append(c1.heap, king)
                 next == clearCell(setCell(c1.refs, onto, Len(h1)), from)
                 snap == cloneBoard_store(h1, board)
             IN /\ heap' = snap.heap
                /\ board' = next
                /\ history' = Append(history, [board |-> snap.refs, turn |-> turn])
                /\ canUndo' = TRUE
                /\ selected' = NoCoord
                /\ highlights' = << >>
                /\ turn' = other(turn)
                /\ given' = given \o <<Kept(board, B), Kept(snap.refs, B)>>
  /\ UNCHANGED <<hyp, result, rotateMode, previewDir>>

\* an actScatter that leaves the king where it stood
actScatterKeepsKing(from, l1, l2) ==
  /\ StampStore([NoAct EXCEPT !.kind = "actScatter", !.on = "store", !.from = from, !.to = l1,
                         !.l2 = l2])
  /\ LET k == pieceAt(B, from) IN
     IF k = NoPiece \/ ~isKing(k)
     THEN UNCHANGED <<heap, board, turn, selected, highlights, history, given, canUndo>>
     ELSE LET owner == ownerOf(k)
              c1   == cloneBoard_store(heap, board)
              h1   == c1.heap \o <<scatterSingle(owner), scatterSingle(owner)>>
              n1   == clearCell(clearCell(c1.refs, l1), l2)
              next == setCell(setCell(n1, l1, Len(c1.heap) + 1), l2, Len(c1.heap) + 2)
              snap == cloneBoard_store(h1, board)
          IN /\ heap' = snap.heap
             /\ board' = next
             /\ history' = Append(history, [board |-> snap.refs, turn |-> turn])
             /\ canUndo' = TRUE
             /\ selected' = NoCoord
             /\ highlights' = << >>
             /\ turn' = other(turn)
             /\ given' = given \o <<Kept(board, B), Kept(snap.refs, B)>>
  /\ UNCHANGED <<hyp, result, rotateMode, previewDir>>

actScatter(from, l1, l2) ==
  /\ StampStore([NoAct EXCEPT !.kind = "actScatter", !.on = "store", !.from = from, !.to = l1,
                         !.l2 = l2])
  /\ LET k == pieceAt(B, from) IN
     IF k = NoPiece \/ ~isKing(k)
     THEN UNCHANGED <<heap, board, turn, selected, highlights, history, given, canUndo>>
     ELSE LET owner == ownerOf(k)
              c1   == cloneBoard_store(heap, board)
              h1   == c1.heap \o <<scatterSingle(owner), scatterSingle(owner)>>
              n1   == clearCell(clearCell(c1.refs, l1), l2)
              n2   == setCell(setCell(n1, l1, Len(c1.heap) + 1), l2, Len(c1.heap) + 2)
              next == clearCell(n2, from)
              snap == cloneBoard_store(h1, board)
          IN /\ heap' = snap.heap
             /\ board' = next
             /\ history' = Append(history, [board |-> snap.refs, turn |-> turn])
             /\ canUndo' = TRUE
             /\ selected' = NoCoord
             /\ highlights' = << >>
             /\ turn' = other(turn)
             /\ given' = given \o <<Kept(board, B), Kept(snap.refs, B)>>
  /\ UNCHANGED <<hyp, result, rotateMode, previewDir>>

endTurn ==
  /\ Stamp([NoAct EXCEPT !.kind = "endTurn", !.on = "store"])
  /\ turn' = other(turn)
  /\ UNCHANGED <<heap, board, selected, highlights, history, hyp, given, result,
                 rotateMode, previewDir>>

\* an undo that puts the board back and leaves the turn as it is
undoKeepsTurn ==
  /\ StampStore([NoAct EXCEPT !.kind = "undo", !.on = "store"])
  /\ IF Len(history) = 0
     THEN UNCHANGED <<heap, board, turn, selected, highlights, history, given, canUndo>>
     ELSE LET last == history[Len(history)]
              c    == cloneBoard_store(heap, last.board)
          IN /\ heap' = c.heap
             /\ board' = c.refs
             /\ turn' = turn
             /\ history' = SubSeq(history, 1, Len(history) - 1)
             /\ canUndo' = (Len(history) - 1 > 0)
             /\ selected' = NoCoord
             /\ highlights' = << >>
             /\ given' = Append(given, Kept(last.board, Deref(heap, last.board)))
  /\ UNCHANGED <<hyp, result, rotateMode, previewDir>>

undo ==
  /\ StampStore([NoAct EXCEPT !.kind = "undo", !.on = "store"])
  /\ IF Len(history) = 0
     THEN UNCHANGED <<heap, board, turn, selected, highlights, history, given, canUndo>>
     ELSE LET last == history[Len(history)]
              c    == cloneBoard_store(heap, last.board)
          IN /\ heap' = c.heap
             /\ board' = c.refs
             /\ turn' = last.turn
             /\ history' = SubSeq(history, 1, Len(history) - 1)
             /\ canUndo' = (Len(history) - 1 > 0)
             /\ selected' = NoCoord
             /\ highlights' = << >>
             /\ given' = Append(given, Kept(last.board, Deref(heap, last.board)))
  /\ UNCHANGED <<hyp, result, rotateMode, previewDir>>

\* the store's actRotateArrow on a heap and a board: copy every cell, then set
\* the arrow of the copy's piece
rotated(h, rb, pos, way) ==
  LET p == pieceAt(Deref(h, rb), pos) IN
  IF p = NoPiece \/ ~isKing(p) \/ p.arrowDir = "none" THEN [heap |-> h, refs |-> rb]
  ELSE LET c == CopyCells(h, rb) IN
       [heap |-> [c.heap EXCEPT ![c.refs[pos]].arrowDir = turnDir(p.arrowDir, way)],
        refs |-> c.refs]

actRotateArrow(pos, way) ==
  /\ Stamp([NoAct EXCEPT !.kind = "actRotateArrow", !.on = "store", !.from = pos, !.dir = way])
  /\ LET r == rotated(heap, board, pos, way) IN
     /\ heap' = r.heap
     /\ board' = r.refs
     /\ given' = IF r.refs = board THEN given ELSE Append(given, Kept(board, B))
  /\ UNCHANGED <<turn, selected, highlights, history, hyp, result, rotateMode, previewDir>>

\* ------------------------------------------------------------------------
\* greedy.ts: applyMoveClone, the hypothetical application of a move
\* ------------------------------------------------------------------------

\* m is [kind, from, to, l2, flag, dir]: from is m.from or m.at, to is m.to,
\* m.onto or m.l1, flag is m.capture.  The result is the heap after the call
\* and the board returned.
applyMoveClone(h, rb, m) ==
  LET next == cloneBoard(h, rb)
      nb   == Deref(next.heap, next.refs)
      p    == pieceAt(nb, m.from)
  IN
  IF m.kind = "move" THEN
    IF p = NoPiece THEN next
    ELSE LET n0 == IF m.flag THEN clearCell(next.refs, m.to) ELSE next.refs IN
         [heap |-> next.heap,
          refs |-> clearCell(setCell(n0, m.to, next.refs[m.from]), m.from)]
  ELSE IF m.kind = "combine" THEN
    LET b == pieceAt(nb, m.to) IN
    IF p = NoPiece \/ b = NoPiece THEN next
    ELSE LET king == [counters |-> b.counters \o p.counters,
                      arrowDir |-> dirFromDelta(m.from, m.to)]
             h1   == Append(next.heap, king)
         IN [heap |-> h1, refs |-> clearCell(setCell(next.refs, m.to, Len(h1)), m.from)]
  ELSE IF m.kind = "rotate" THEN
    IF p = NoPiece \/ ~isKing(p) \/ p.arrowDir = "none" THEN next
    ELSE [heap |-> [next.heap EXCEPT ![next.refs[m.from]].arrowDir = turnDir(p.arrowDir, m.dir)],
          refs |-> next.refs]
  ELSE IF m.kind = "scatter" THEN
    IF p = NoPiece \/ ~isKing(p) THEN next
    ELSE LET own == ownerOf(p)
             h1  == next.heap \o <<scatterSingle(own), scatterSingle(own)>>
             n1  == clearCell(next.refs, m.from)
         IN [heap |-> h1,
             refs |-> setCell(setCell(n1, m.to, Len(next.heap) + 1), m.l2, Len(next.heap) + 2)]
  ELSE next

\* the search applies a move to the store's board or to a board it built
Apply(on, m) ==
  LET rb == IF on = "board" THEN board ELSE hyp
      r  == applyMoveClone(heap, rb, m)
  IN /\ on = "hyp" => hyp # emptyBoard
     /\ Stamp([NoAct EXCEPT !.kind = "applyMoveClone", !.on = on, !.m = m.kind,
                            !.from = m.from, !.to = m.to, !.l2 = m.l2, !.flag = m.flag,
                            !.dir = m.dir])
     /\ heap' = r.heap
     /\ hyp' = r.refs
     /\ given' = Append(given, Kept(rb, Deref(heap, rb)))
     /\ UNCHANGED <<board, turn, selected, highlights, history, result, rotateMode, previewDir>>

\* ------------------------------------------------------------------------
\* Spec: the store's actions and the search's applications, with any arguments
\* ------------------------------------------------------------------------

MaxSteps == 2

\* the squares the arguments are drawn from: two that hold the pieces of the
\* starting boards and an empty neighbour of both
ActSquares == {<<0, 0>>, <<0, 1>>, <<1, 1>>}

Ways == {"CW", "CCW"}

NoMove == [kind |-> "none", from |-> NoCoord, to |-> NoCoord, l2 |-> NoCoord, flag |-> FALSE,
           dir |-> "none"]

Moves ==
  {[NoMove EXCEPT !.kind = "move", !.from = f, !.to = t, !.flag = c] :
     f \in ActSquares, t \in ActSquares, c \in BOOLEAN}
    \cup {[NoMove EXCEPT !.kind = "combine", !.from = f, !.to = t] :
            f \in ActSquares, t \in ActSquares}
    \cup {[NoMove EXCEPT !.kind = "rotate", !.from = f, !.dir = w] : f \in ActSquares, w \in Ways}
    \cup {[NoMove EXCEPT !.kind = "scatter", !.from = f, !.to = t, !.l2 = u] :
            f \in ActSquares, t \in ActSquares, u \in ActSquares}

\* the starting boards: a Black piece on <<0, 0>> and a second piece beside it
GameFirst == {makeSingle("Black", FALSE), makeSingle("Black", TRUE), makeKing("Black", "E")}

GameSecond ==
  {makeSingle("Black", FALSE), makeSingle("White", FALSE), makeSingle("White", TRUE),
   makeKing("Black", "W"), makeKing("White", "W"), makeKing("White", "S")}

GameBoards ==
  {[sq \in {<<0, 0>>, <<0, 1>>} |-> IF sq = <<0, 0>> THEN a ELSE b] :
     a \in GameFirst, b \in GameSecond}

Init ==
  /\ \E pl \in GameBoards : heap = HeapOf(pl) /\ board = RefsOf(pl)
  /\ Idle

Next ==
  /\ steps < MaxSteps
  /\ UNCHANGED animTimer
  /\ \/ \E pos \in ActSquares \cup {NoCoord} : select(pos)
     \/ \E from \in ActSquares, to \in ActSquares, isCapture \in BOOLEAN :
          actMove(from, to, isCapture)
     \/ \E from \in ActSquares, onto \in ActSquares : actCombine(from, onto)
     \/ \E from \in ActSquares, l1 \in ActSquares, l2 \in ActSquares : actScatter(from, l1, l2)
     \/ \E pos \in ActSquares, way \in Ways : actRotateArrow(pos, way)
     \/ endTurn
     \/ undo
     \/ \E on \in {"board", "hyp"}, m \in Moves : Apply(on, m)

Spec == Init /\ [][Next]_vars

\* ---- C9 ----

\* C9: every board handed to an action application (actMove, actCombine,
\* actScatter, actRotateArrow, undo's snapshot, applyMoveClone) and every
\* snapshot pushed on the history still has, after every later operation,
\* the pieces, counters and arrows it had when it was handed over.
GivenBoardsKept ==
  \A i \in 1..Len(given) : Deref(heap, given[i].refs) = given[i].val

\* a board returned by applyMoveClone was handed to applyMoveClone again,
\* which turned a king on its copy
GivenBoardsKeptWitness ==
  /\ Len(given) >= 2
  /\ act.kind = "applyMoveClone"
  /\ act.on = "hyp"
  /\ act.m = "rotate"
  /\ given[Len(given)].refs # hyp
  /\ Deref(heap, hyp) # given[Len(given)].val

\* ---- C10 ----

\* the board the operation recorded in a was applied to, and the board it left
StatedInput(a) == IF a.on = "hyp" THEN Deref(heap, hyp) ELSE B

StatedOutput(a) == IF a.on = "store" THEN B' ELSE Deref(heap', hyp')

StatedIsMove(a) == a.kind = "actMove" \/ (a.kind = "applyMoveClone" /\ a.m = "move")

StatedIsCombine(a) == a.kind = "actCombine" \/ (a.kind = "applyMoveClone" /\ a.m = "combine")

StatedIsScatter(a) == a.kind = "actScatter" \/ (a.kind = "applyMoveClone" /\ a.m = "scatter")

StatedFromEmpty(b, a) == StatedIsMove(a) /\ a.from \notin DOMAIN b

StatedOntoFriend(b, a) ==
  /\ StatedIsMove(a)
  /\ a.from \in DOMAIN b
  /\ a.to \in DOMAIN b
  /\ a.to # a.from
  /\ b[a.to].counters[1].owner = b[a.from].counters[1].owner

StatedOntoStronger(b, a) ==
  /\ StatedIsMove(a)
  /\ a.from \in DOMAIN b
  /\ a.to \in DOMAIN b
  /\ b[a.to].counters[1].owner # b[a.from].counters[1].owner
  /\ valueAt(b, a.to) > valueAt(b, a.from)

StatedBadCombine(b, a) ==
  /\ StatedIsCombine(a)
  /\ a.from \in DOMAIN b
  /\ a.to \in DOMAIN b
  /\ \/ Len(b[a.from].counters) # 1
     \/ Len(b[a.to].counters) # 1
     \/ b[a.from].counters[1].isKey = "true"
     \/ b[a.to].counters[1].isKey = "true"
     \/ b[a.to].counters[1].owner # b[a.from].counters[1].owner

StatedScatterNoKing(b, a) ==
  StatedIsScatter(a) /\ (a.from \notin DOMAIN b \/ Len(b[a.from].counters) # 2)

\* C10: an action application whose precondition is violated (a move from an
\* empty square, a move onto a friendly piece, a capture of a piece of higher
\* value, a combine with a king, a key or a piece of the other owner, a
\* scatter from a square without a king) leaves the board as it was given.
InvalidIsNoOp ==
  [][LET a == act'
         b == StatedInput(a)
     IN (\/ StatedFromEmpty(b, a)
         \/ StatedOntoFriend(b, a)
         \/ StatedOntoStronger(b, a)
         \/ StatedBadCombine(b, a)
         \/ StatedScatterNoKing(b, a))
        => StatedOutput(a) = b]_vars

\* ------------------------------------------------------------------------
\* The board view's rotation handlers (buffered preview, confirm, cancel)
\* ------------------------------------------------------------------------

handleOrient(dir) ==
  /\ selected # NoCoord
  /\ LET p == pieceAt(B, selected) IN
     /\ p # NoPiece
     /\ isKing(p)
     /\ p.arrowDir # "none"
     /\ ownerOf(p) = turn
  /\ Stamp([NoAct EXCEPT !.kind = "handleOrient", !.on = "view", !.from = selected, !.dir = dir])
  /\ rotateMode' = TRUE
  /\ previewDir' = dir
  /\ UNCHANGED <<heap, board, turn, selected, highlights, history, hyp, given, result>>

cycleRotationCW ==
  /\ selected # NoCoord
  /\ LET p == pieceAt(B, selected) IN
     /\ p # NoPiece
     /\ isKing(p)
     /\ p.arrowDir # "none"
     /\ previewDir' = IF previewDir = "none" THEN nextCW(p.arrowDir) ELSE nextCW(previewDir)
  /\ Stamp([NoAct EXCEPT !.kind = "cycleRotationCW", !.on = "view", !.from = selected])
  /\ rotateMode' = TRUE
  /\ UNCHANGED <<heap, board, turn, selected, highlights, history, hyp, given, result>>

\* for (i < steps) actRotateArrow(selected, 'CW'): each call reads the store's
\* board of the moment; kept collects the boards the calls were given
RECURSIVE rotateLoop(_, _, _, _, _)
rotateLoop(h, rb, pos, k, kept) ==
  IF k = 0 THEN [heap |-> h, refs |-> rb, kept |-> kept]
  ELSE LET r == rotated(h, rb, pos, "CW") IN
       rotateLoop(r.heap, r.refs, pos, k - 1,
                  IF r.refs = rb THEN kept ELSE Append(kept, Kept(rb, Deref(h, rb))))

rotationEndsTurnFromTwo(vEff) == vEff >= 2

\* if (vEff === 2) endTurn()
rotationEndsTurn(vEff) == vEff = 2

confirmRotation ==
  /\ selected # NoCoord
  /\ LET b == B
         p == pieceAt(b, selected)
     IN IF p = NoPiece \/ ~isKing(p) \/ p.arrowDir = "none" \/ previewDir = "none"
        THEN /\ Stamp([NoAct EXCEPT !.kind = "confirmRotation", !.on = "view",
                                    !.from = selected])
             /\ UNCHANGED <<heap, board, turn, given>>
        ELSE LET n    == (indexOf(previewDir) - indexOf(p.arrowDir) + 8) % 8
                 r    == rotateLoop(heap, board, selected, n, given)
                 vEff == valueAt(b, selected)
             IN /\ Stamp([NoAct EXCEPT !.kind = "confirmRotation", !.on = "view",
                                       !.from = selected, !.dir = previewDir,
                                       !.flag = (n > 0)])
                /\ heap' = r.heap
                /\ board' = r.refs
                /\ given' = r.kept
                /\ turn' = IF rotationEndsTurn(vEff) THEN other(turn) ELSE turn
  /\ rotateMode' = FALSE
  /\ previewDir' = "none"
  /\ UNCHANGED <<selected, highlights, history, hyp, result>>

cancelRotation ==
  /\ Stamp([NoAct EXCEPT !.kind = "cancelRotation", !.on = "view"])
  /\ rotateMode' = FALSE
  /\ previewDir' = "none"
  /\ UNCHANGED <<heap, board, turn, selected, highlights, history, hyp, given, result>>

\* ------------------------------------------------------------------------
\* SpecRotate: selecting a king and rotating it through the board view
\* ------------------------------------------------------------------------

MaxClicks == 3

RotateClicks == {<<0, 0>>, <<0, 1>>}

\* a Black king on <<0, 1>> and at most one other piece of any kind
RotateBoards ==
  {pl \in Placements :
     /\ Cardinality(DOMAIN pl) <= 2
     /\ <<0, 1>> \in DOMAIN pl
     /\ isKing(pl[<<0, 1>>])
     /\ ownerOf(pl[<<0, 1>>]) = "Black"}

InitRotate ==
  /\ \E pl \in RotateBoards : heap = HeapOf(pl) /\ board = RefsOf(pl)
  /\ Idle

NextRotate ==
  /\ steps < MaxClicks
  /\ UNCHANGED animTimer
  /\ \/ \E pos \in RotateClicks : select(pos)
     \/ \E dir \in Dirs : handleOrient(dir)
     \/ cycleRotationCW
     \/ confirmRotation
     \/ cancelRotation

SpecRotate == InitRotate /\ [][NextRotate]_vars

\* ---- C8 ----

StatedIllegalTarget(b, pos) == ~inBounds(pos[1], pos[2]) \/ pieceAt(b, pos) = NoPiece

StatedNeutral(r) ==
  CASE r.fn \in {"valueAt", "valueAt_cell"} -> r.out = 0
    [] r.fn = "legalMovesFor" -> r.out = NoMoves
    [] r.fn = "legalMovesFor_cell" ->
         r.out.moves = << >> /\ r.out.captures = << >> /\ r.out.combines = << >>
    [] r.fn = "scatterBases" -> r.out = << >>
    [] r.fn = "validateScatter" -> r.out.can = FALSE
    [] OTHER -> TRUE

\* C11: a query of valueAt, legalMovesFor, scatterBases or validateScatter at
\* an empty square or at a coordinate outside the board raises no error and
\* returns the neutral result (0, empty sets, empty list, can = false).
IllegalQueryNeutral ==
  (/\ result.fn \in {"valueAt", "valueAt_cell", "legalMovesFor", "legalMovesFor_cell",
                      "scatterBases", "validateScatter"}
   /\ StatedIllegalTarget(B, result.from))
    => (result.err = "none" /\ StatedNeutral(result))

\* ------------------------------------------------------------------------
\* greedy.ts: the evaluator and the candidate list of the search
\* Scores are kept in hundredths (0.15 is 15, 1000 is 100000).
\* ------------------------------------------------------------------------

RECURSIVE SumF(_)
SumF(f) ==
  IF DOMAIN f = {} THEN 0
  ELSE LET x == CHOOSE y \in DOMAIN f : TRUE
       IN f[x] + SumF([y \in DOMAIN f \ {x} |-> f[y]])

Abs(x) == IF x < 0 THEN -x ELSE x

\* the board value of what applyMoveClone returns
boardOf(r) == Deref(r.heap, r.refs)

\* the board value a hypothetical application returns
applied(b, m) == boardOf(applyMoveClone(HeapOf(b), RefsOf(b), m))

keySquares(b, side) == {sq \in DOMAIN b : isKeyPiece(b[sq]) /\ ownerOf(b[sq]) = side}

canSideCaptureSquare(b, side, target) ==
  \E from \in DOMAIN b :
    /\ ownerOf(b[from]) = side
    /\ SeqHas(legalMovesFor(b, from).captures, target)

canOppCaptureOurKey(b, me) ==
  \E k \in keySquares(b, me) : canSideCaptureSquare(b, other(me), k)

keysRemaining(b, side) ==
  Cardinality({sq \in DOMAIN b : ownerOf(b[sq]) = side /\ isKeyPiece(b[sq])})

roughAdjEmpties(b, pos) ==
  Cardinality({d \in {<<dr, dc>> : dr \in -1..1, dc \in -1..1} \ {<<0, 0>>} :
                 /\ inBounds(pos[1] + d[1], pos[2] + d[2])
                 /\ pieceAt(b, Add(pos, d, 1)) = NoPiece})

\* greedy.ts line 312: score += 1000
TerminalBonus == 100000

\* const sign = mine ? 1 : -1
signOf(b, me, sq) == IF ownerOf(b[sq]) = me THEN 1 ELSE -1

\* material, keys, effective value and the nudge for a king with an arrow
material(b, me) ==
  SumF([sq \in DOMAIN b |->
          signOf(b, me, sq) * ((IF isKing(b[sq]) THEN 300 ELSE 100)
                             + (IF isKeyPiece(b[sq]) THEN 500 ELSE 0)
                             + 25 * valueAt(b, sq)
                             + (IF isKing(b[sq]) /\ b[sq].arrowDir # "none" THEN 15 ELSE 0))])

\* 0.15 * (myMoves - opMoves)
mobility(b, me) == 15 * SumF([sq \in DOMAIN b |-> signOf(b, me, sq) * roughAdjEmpties(b, sq)])

arrowKings(b) == {k \in DOMAIN b : isKing(b[k]) /\ b[k].arrowDir # "none"}

\* the squares some king's ray reaches
raySquaresHit(b) ==
  UNION {{getRayForKing(b, k)[i] : i \in 1..Len(getRayForKing(b, k))} : k \in arrowKings(b)}

rayHits(b, me, sq) ==
  Cardinality({k \in arrowKings(b) : ownerOf(b[k]) = me /\ SeqHas(getRayForKing(b, k), sq)})

rayHitsOpp(b, me, sq) ==
  Cardinality({k \in arrowKings(b) : ownerOf(b[k]) # me /\ SeqHas(getRayForKing(b, k), sq)})

\* 0.4 * (rayHits - rayHitsOpp), and 0.8 for a node of two friendly rays
nodeScoreAt(hits, hitsOpp) == 40 * (hits - hitsOpp) + (IF hits >= 2 THEN 80 ELSE 0)

nodeScore(b, me) ==
  SumF([sq \in raySquaresHit(b) |-> nodeScoreAt(rayHits(b, me, sq), rayHitsOpp(b, me, sq))])

keyThreat(b, me) == IF canOppCaptureOurKey(b, me) THEN -600 ELSE 0

kingThreat(b, me) ==
  -120 * Cardinality({k \in DOMAIN b : /\ isKing(b[k])
                                        /\ ownerOf(b[k]) = me
                                        /\ canSideCaptureSquare(b, other(me), k)})

\* the terms of evaluateBoard before the terminal bonus
evaluateTerms(b, me) ==
  material(b, me) + mobility(b, me) + nodeScore(b, me) + keyThreat(b, me) + kingThreat(b, me)

evaluateBoard(b, me) ==
  evaluateTerms(b, me) + (IF keysRemaining(b, other(me)) = 0 THEN TerminalBonus ELSE 0)

AIMove(kind, from, to, l2, flag, dir, score) ==
  [kind |-> kind, from |-> from, to |-> to, l2 |-> l2, flag |-> flag, dir |-> dir,
   score |-> score]

\* pickWithLookahead's and the worker's null
NullMove == AIMove("null", NoCoord, NoCoord, NoCoord, FALSE, "none", 0)

\* 0.03 * ((3 - |3.5 - r|) + (3 - |3.5 - c|)), in hundredths
center(to) == 3 * (6 - (Abs(7 - 2 * to[1]) + Abs(7 - 2 * to[2])) \div 2)

hanging(next, side, to, penalty) ==
  IF canSideCaptureSquare(next, other(side), to) THEN penalty ELSE 0

withScore(m, score) == [m EXCEPT !.score = score]

capBonus(tgt) == 150 + (IF tgt # NoPiece /\ isKeyPiece(tgt) THEN 300 ELSE 0)

\* what each kind of candidate adds to the evaluation of the board after it
bonusOf(b, m) ==
  CASE m.kind = "combine" -> 60
    [] m.kind = "move" /\ m.flag -> capBonus(pieceAt(b, m.to))
    [] m.kind = "move" /\ ~m.flag -> center(m.to)
    [] m.kind = "scatter" -> 40
    [] OTHER -> 0

\* what is taken off when the opponent can capture the piece on `to` after
\* the move; a rotation and a scatter are not looked at
penaltyOf(m) ==
  CASE m.kind = "combine" -> 125
    [] m.kind = "move" /\ m.flag -> 90
    [] m.kind = "move" /\ ~m.flag -> 75
    [] OTHER -> 0

\* evaluateBoard(next, side) + bonus - penalty, next being the board after m
scoreAfter(next, side, m, bonus, penalty) ==
  evaluateBoard(next, side) + bonus
    - (IF penalty = 0 THEN 0 ELSE hanging(next, side, m.to, penalty))

\* out.push({ ...m, score })
scored(b, side, m) ==
  withScore(m, scoreAfter(applied(b, m), side, m, bonusOf(b, m), penaltyOf(m)))

combineCands(pos, lm) ==
  [i \in 1..Len(lm.combines) |->
     AIMove("combine", pos, lm.combines[i], NoCoord, FALSE, "none", 0)]

captureCands(pos, lm) ==
  [i \in 1..Len(lm.captures) |->
     AIMove("move", pos, lm.captures[i], NoCoord, TRUE, "none", 0)]

quietCands(pos, lm) ==
  [i \in 1..Len(lm.moves) |->
     AIMove("move", pos, lm.moves[i], NoCoord, FALSE, "none", 0)]

rotateCandsFromTwo(b, pos) ==
  IF isKing(b[pos]) /\ b[pos].arrowDir # "none" /\ valueAt(b, pos) >= 2
  THEN [i \in 1..2 |->
          AIMove("rotate", pos, NoCoord, NoCoord, FALSE, IF i = 1 THEN "CW" ELSE "CCW", 0)]
  ELSE << >>

rotateCands(b, pos) ==
  IF isKing(b[pos]) /\ b[pos].arrowDir # "none" /\ valueAt(b, pos) >= 3
  THEN [i \in 1..2 |->
          AIMove("rotate", pos, NoCoord, NoCoord, FALSE, IF i = 1 THEN "CW" ELSE "CCW", 0)]
  ELSE << >>

\* the answers of validateScatter with can = true, in the order of the bases
validScatters(b, pos, bases) ==
  SelectSeq([i \in 1..Len(bases) |-> validateScatter(b, pos, bases[i])], LAMBDA info : info.can)

scatterCandsOf(pos, ok) ==
  [i \in 1..Len(ok) |-> AIMove("scatter", pos, ok[i].l1, ok[i].l2, FALSE, "none", 0)]

scatterCands(b, pos) ==
  IF isKing(b[pos]) /\ b[pos].arrowDir # "none" /\ valueAt(b, pos) >= 2
  THEN scatterCandsOf(pos, validScatters(b, pos, scatterBases(b, pos)))
  ELSE << >>

\* every candidate with its score, in the order the candidates were found
scoreAll(b, side, cands) == [i \in 1..Len(cands) |-> scored(b, side, cands[i])]

\* the candidates of the piece at pos, lm being legalMovesFor(b, pos)
candidatesOf(b, side, pos, lm) ==
  scoreAll(b, side,
           combineCands(pos, lm) \o captureCands(pos, lm) \o quietCands(pos, lm)
             \o rotateCands(b, pos) \o scatterCands(b, pos))

\* the candidates of the pieces of `side` from the k-th square on, row-major
RECURSIVE candidatesFrom(_, _, _, _)
candidatesFrom(b, side, own, k) ==
  IF k > Cardinality(own) THEN << >>
  ELSE candidatesOf(b, side, squareOfRank(own, k), legalMovesFor(b, squareOfRank(own, k)))
         \o candidatesFrom(b, side, own, k + 1)

\* x goes before the first element that does not score higher
RECURSIVE insertByScore(_, _)
insertByScore(x, s) ==
  IF s = << >> THEN <<x>>
  ELSE IF Head(s).score > x.score THEN <<Head(s)>> \o insertByScore(x, Tail(s))
  ELSE <<x>> \o s

unsortedByScore(s) == s

\* out.sort((a, b) => b.score - a.score): best first, equal scores keep their order
RECURSIVE sortByScore(_)
sortByScore(s) ==
  IF s = << >> THEN << >> ELSE insertByScore(Head(s), sortByScore(Tail(s)))

enumerateMoves(b, side) ==
  sortByScore(candidatesFrom(b, side, {sq \in DOMAIN b : ownerOf(b[sq]) = side}, 1))

slice(s, n) == SubSeq(s, 1, Min(n, Len(s)))

isCaptureMove(m) == m.kind = "move" /\ m.flag

\* [...caps, ...others.slice(0, kOther)]
shortlistOf(all, kOther) ==
  SelectSeq(all, isCaptureMove) \o slice(SelectSeq(all, LAMBDA m : ~isCaptureMove(m)), kOther)

shortlistReplies(b, side, kOther) == shortlistOf(enumerateMoves(b, side), kOther)

\* greedy.ts line 486: score: 9999
TerminalScore == 999900

\* if (val < worstForUs) worstForUs = val; worst.inf stands for Infinity
lower(worst, val) == IF worst.inf \/ val < worst.v THEN [inf |-> FALSE, v |-> val] ELSE worst

\* the val of the reply the opponent likes best, from the i-th reply on
RECURSIVE worstOver(_, _, _, _, _)
worstOver(nb, side, replies, i, worst) ==
  IF i > Len(replies) THEN worst
  ELSE worstOver(nb, side, replies, i + 1,
                 lower(worst, evaluateBoard(applied(nb, replies[i]), side)))

\* let worstForUs = replies.length ? Infinity : 0, then the loop over the replies
worstForUs(nb, side, replies) ==
  IF Len(replies) > 0 THEN worstOver(nb, side, replies, 1, [inf |-> TRUE, v |-> 0]).v ELSE 0

minimaxScore(nb, side, replyLimit) ==
  evaluateBoard(nb, side) - worstForUs(nb, side, shortlistReplies(nb, other(side), replyLimit))

\* if (minimaxScore > bestScore): best.none stands for bestMove = null with
\* bestScore = -Infinity
better(best, m, score) ==
  IF best.none \/ score > best.move.score
  THEN [none |-> FALSE, move |-> withScore(m, score)]
  ELSE best

\* the for loop of pickWithLookahead from the i-th first move on; pickBody is
\* its body for the move m and the board nb after it
RECURSIVE pickLoop(_, _, _, _, _, _)
RECURSIVE pickBody(_, _, _, _, _, _, _, _)
pickBody(b, side, replyLimit, firstMoves, i, best, m, nb) ==
  IF keysRemaining(nb, other(side)) = 0 THEN withScore(m, TerminalScore)
  ELSE pickLoop(b, side, replyLimit, firstMoves, i + 1,
                better(best, m, minimaxScore(nb, side, replyLimit)))

pickLoop(b, side, replyLimit, firstMoves, i, best) ==
  IF i > Len(firstMoves) THEN (IF best.none THEN NullMove ELSE best.move)
  ELSE pickBody(b, side, replyLimit, firstMoves, i, best, firstMoves[i],
                applied(b, firstMoves[i]))

pickFrom(b, side, replyLimit, firstMoves) ==
  IF Len(firstMoves) = 0 THEN NullMove
  ELSE pickLoop(b, side, replyLimit, firstMoves, 1, [none |-> TRUE, move |-> NullMove])

pickWithLookahead(b, side, replyLimit, moveLimit) ==
  pickFrom(b, side, replyLimit, slice(enumerateMoves(b, side), moveLimit))

\* ------------------------------------------------------------------------
\* SpecAI: the evaluator, the candidate list and the search on starting boards
\* ------------------------------------------------------------------------

\* a Black king of value 2 in the corner, shut in by three White kings that
\* boost one another to value 3
BoxedKing ==
  [sq \in {<<0, 0>>, <<0, 1>>, <<1, 0>>, <<1, 1>>} |->
     CASE sq = <<0, 0>> -> makeKing("Black", "N")
       [] sq = <<0, 1>> -> makeKing("White", "S")
       [] sq = <<1, 0>> -> makeKing("White", "NE")
       [] sq = <<1, 1>> -> makeKing("White", "W")]

\* a Black king aimed along the top row, a Black piece behind it (a king
\* there boosts it to value 3) and a White piece two squares down the arrow
AITriples ==
  {[sq \in {<<0, 0>>, <<1, 1>>, <<0, 2>>} |->
      CASE sq = <<0, 0>> -> makeKing("Black", "E")
        [] sq = <<1, 1>> -> x
        [] sq = <<0, 2>> -> y] :
     x \in {makeKing("Black", "NW"), makeSingle("Black", FALSE), makeSingle("Black", TRUE)},
     y \in {makeSingle("White", TRUE), makeSingle("White", FALSE), makeKing("White", "W")}}

\* every board of at most two pieces of any kind on the region, the triples
\* and the boxed king
AIBoards ==
  UNION {[S -> Kinds] : S \in {T \in SUBSET Region : Cardinality(T) <= 2}}
    \cup AITriples \cup {BoxedKing}

InitAI ==
  /\ \E pl \in AIBoards : heap = HeapOf(pl) /\ board = RefsOf(pl)
  /\ Idle

\* greedy.ts lines 425-426 and the limits Board.tsx passes
OPP_REPLY_LIMIT_DEFAULT == 6

MOVE_LIMIT_DEFAULT == 24

MoveLimits == {1, MOVE_LIMIT_DEFAULT}

Evaluate ==
  \E me \in Players :
    Answer("evaluateBoard", NoCoord, NoCoord, [side |-> me, score |-> evaluateBoard(B, me)])

Enumerate ==
  \E side \in Players :
    Answer("enumerateMoves", NoCoord, NoCoord, [side |-> side, moves |-> enumerateMoves(B, side)])

Pick ==
  \E side \in Players, moveLimit \in MoveLimits :
    /\ act = NoAct
    /\ Len(inbox) + Len(handled) = 0
    /\ Answer("pickWithLookahead", NoCoord, NoCoord,
           [side |-> side, moveLimit |-> moveLimit,
            move |-> pickWithLookahead(B, side, OPP_REPLY_LIMIT_DEFAULT, moveLimit)])

NextAI ==
  \/ Evaluate
  \/ Enumerate
  \/ Pick

SpecAI == InitAI /\ [][NextAI]_vars

\* ---- the search takes a win when there is one ----

\* the key pieces the opponent of `side` keeps when the squares `taken` are captured
StatedKeysLeft(b, side, taken) ==
  {sq \in DOMAIN b \ taken : ownerOf(b[sq]) = other(side) /\ isKeyPiece(b[sq])}

\* a one-step capture, a king's capture along its arrow or a scatter capture
\* of `side` after which the opponent has no key piece
StatedKeyKill(b, side) ==
  \E from \in DOMAIN b :
    /\ ownerOf(b[from]) = side
    /\ \/ \E i \in 1..Len(legalMovesFor(b, from).captures) :
            StatedKeysLeft(b, side, {legalMovesFor(b, from).captures[i]}) = {}
       \/ /\ isKing(b[from])
          /\ LET arrow == generateKingArrowMoves(b, from, b[from], valueAt(b, from), side) IN
             \E i \in 1..Len(arrow) :
               arrow[i].type = "capture" /\ StatedKeysLeft(b, side, {arrow[i].to}) = {}
       \/ \E i \in 1..Len(scatterBases(b, from)) :
            LET info == validateScatter(b, from, scatterBases(b, from)[i]) IN
            /\ info.can
            /\ {info.l1, info.l2} \cap DOMAIN b # {}
            /\ StatedKeysLeft(b, side, {info.l1, info.l2}) = {}

\* the squares an action of the search captures
StatedTaken(b, m) ==
  IF m.kind = "move" /\ m.flag THEN {m.to}
  ELSE IF m.kind = "scatter" THEN {m.to, m.l2} \cap DOMAIN b
  ELSE {}

\* C12: when some legal capture of `side` (one step, along a king's arrow, or
\* by scatter) leaves the opponent without key pieces, pickWithLookahead
\* returns an action after which the opponent has no key piece, scored 9999.
TakesTheWin ==
  (result.fn = "pickWithLookahead" /\ StatedKeyKill(B, result.out.side))
    => /\ result.out.move.kind # "null"
       /\ result.out.move.score = TerminalScore
       /\ StatedKeysLeft(B, result.out.side, StatedTaken(B, result.out.move)) = {}

\* the only capture of the last key is the king's capture two squares down its
\* arrow, only the best candidate is searched, and the quiet moves are candidates too
TakesTheWinWitness ==
  /\ result.fn = "pickWithLookahead"
  /\ result.out.moveLimit = 1
  /\ result.out.side = "Black"
  /\ StatedKeyKill(B, "Black")
  /\ keysRemaining(B, "White") = 1
  /\ \A from \in DOMAIN B : legalMovesFor(B, from).captures = << >>
  /\ Len(enumerateMoves(B, "Black")) > 1
  /\ result.out.move.score = TerminalScore

\* ---- the evaluator on a board whose opponent has no key ----

\* C13: on every board on which the opponent of the perspective has no key
\* counter, evaluateBoard is at least the terminal bonus (1000), whatever the
\* material, mobility, ray and threat terms contribute.
TerminalAtLeastBonus ==
  (/\ result.fn = "evaluateBoard"
   /\ \A sq \in DOMAIN B :
        ownerOf(B[sq]) = other(result.out.side) => ~isKeyPiece(B[sq]))
    => result.out.score >= TerminalBonus

\* ------------------------------------------------------------------------
\* worker.ts: the AI worker, and the AI loop of the board view
\* ------------------------------------------------------------------------

MaxMessages == 2

RequestMsg(type, b, side) == [type |-> type, board |-> b, turn |-> side]

\* what the worker posts: shape tells whether move is null, one action, or
\* the whole list that enumerateMoves returned (then kept in list)
ResponseMsg(type, shape, move, list, req) ==
  [type |-> type, shape |-> shape, move |-> move, list |-> list, req |-> req]

frameWorker ==
  UNCHANGED <<heap, board, turn, selected, highlights, history, hyp, given, act, result,
              rotateMode, previewDir, steps, animTimer, canUndo>>

\* a page that uses the worker posts a message to it: the board travels as a copy
send ==
  \E type \in {"request", "ping"}, side \in Players :
    /\ act = NoAct
    /\ result = NoResult
    /\ Len(inbox) + Len(handled) < MaxMessages
    /\ inbox' = Append(inbox, RequestMsg(type, B, side))
    /\ UNCHANGED <<outbox, handled>>
    /\ frameWorker

\* for (const m of moves) if (!best || m.score > best.score) best = m
RECURSIVE bestOfFrom(_, _, _)
bestOfFrom(moves, i, best) ==
  IF i > Len(moves) THEN best
  ELSE bestOfFrom(moves, i + 1,
                  IF best.kind = "null" \/ moves[i].score > best.score THEN moves[i] ELSE best)

bestOf(moves) == bestOfFrom(moves, 1, NullMove)

\* postMessage({ type: "response", move: best })
respond(best, req) ==
  ResponseMsg("response", IF best.kind = "null" THEN "null" ELSE "one", best, << >>, req)

\* worker.ts lines 21-37: the "message" listener
listener ==
  /\ Len(inbox) > 0
  /\ inbox' = Tail(inbox)
  /\ handled' = Append(handled, Head(inbox))
  /\ IF Head(inbox).type # "request" THEN UNCHANGED outbox
     ELSE outbox' = Append(outbox,
                           respond(bestOf(enumerateMoves(Head(inbox).board, Head(inbox).turn)),
                                   Len(handled) + 1))
  /\ frameWorker

\* worker.ts lines 51-57: self.onmessage, which posts what enumerateMoves returned
onmessage ==
  /\ Len(inbox) > 0
  /\ LET e == Head(inbox) IN
     /\ inbox' = Tail(inbox)
     /\ handled' = Append(handled, e)
     /\ IF e.type # "request" THEN UNCHANGED outbox
        ELSE outbox' = Append(outbox,
                              ResponseMsg("reply", "list", NullMove,
                                          enumerateMoves(e.board, e.turn), Len(handled) + 1))
  /\ frameWorker

\* pickWithLookahead(...) ?? enumerateMoves(...)[0] ?? null
firstChoice(picked, first) ==
  IF picked.kind # "null" THEN picked
  ELSE IF Len(first) > 0 THEN first[1] ELSE NullMove

\* what the timer does with the action it chose. A scatter has no `to`:
\* actMove(action.from, undefined, false) reads to.r and raises, which leaves
\* the store as it was.
aiAct(action) ==
  IF action.kind = "null"
  THEN /\ Stamp([NoAct EXCEPT !.kind = "aiLoop", !.on = "view", !.m = "null"])
       /\ UNCHANGED <<heap, board, turn, selected, highlights, history, hyp, given,
                      result, rotateMode, previewDir>>
  ELSE IF action.kind = "combine" THEN actCombine(action.from, action.to)
  ELSE IF action.kind = "rotate" THEN actRotateArrow(action.from, action.dir)
  ELSE IF action.kind = "scatter"
  THEN /\ Stamp([NoAct EXCEPT !.kind = "aiLoop", !.on = "view", !.m = "scatter",
                              !.from = action.from])
       /\ UNCHANGED <<heap, board, turn, selected, highlights, history, hyp, given,
                      result, rotateMode, previewDir>>
  ELSE actMove(action.from, action.to, action.flag)

\* Board.tsx lines 185-201: the timer of the AI loop, for the side to move
aiLoop ==
  /\ act = NoAct
  /\ result = NoResult
  /\ Len(inbox) + Len(handled) = 0
  /\ aiAct(firstChoice(pickWithLookahead(B, turn, 6, 24), enumerateMoves(B, turn)))
  /\ UNCHANGED animTimer

\* a Black piece alone, the boards of two pieces around the corner, the
\* triples and the boxed king
WorkerBoards ==
  {[sq \in {<<0, 0>>} |-> k] : k \in GameFirst} \cup GameBoards \cup AITriples \cup {BoxedKing}

InitWorker ==
  /\ \E pl \in WorkerBoards : heap = HeapOf(pl) /\ board = RefsOf(pl)
  /\ Idle

NextWorker ==
  \/ send
  \/ listener
  \/ onmessage
  \/ aiLoop
  \/ Pick

SpecWorker == InitWorker /\ [][NextWorker]_vars

\* ---- a side without a legal action ----

\* the rules give `side` something to do: a one-step move, capture or
\* combine, a king's move along its arrow, a valid scatter, or a rotation
\* (a king with an arrow of value 2 or more)
StatedHasLegalAction(b, side) ==
  \E from \in DOMAIN b :
    /\ ownerOf(b[from]) = side
    /\ LET lm == legalMovesFor(b, from) IN
       \/ lm.moves # << >>
       \/ lm.captures # << >>
       \/ lm.combines # << >>
       \/ /\ isKing(b[from])
          /\ generateKingArrowMoves(b, from, b[from], valueAt(b, from), side) # << >>
       \/ \E i \in 1..Len(scatterBases(b, from)) :
            validateScatter(b, from, scatterBases(b, from)[i]).can
       \/ isKing(b[from]) /\ b[from].arrowDir # "none" /\ valueAt(b, from) >= 2

\* C14: pickWithLookahead returns null exactly when the side has no legal
\* action (moveLimit >= 1), the worker's response then carries move = null,
\* and the AI loop does not hand the turn over in that case.
NoActionIsReported ==
  /\ (result.fn = "pickWithLookahead" /\ result.out.moveLimit >= 1)
       => (result.out.move.kind = "null" <=> ~StatedHasLegalAction(B, result.out.side))
  /\ \A i \in 1..Len(outbox) :
       LET req == handled[outbox[i].req] IN
       ~StatedHasLegalAction(req.board, req.turn) => outbox[i].shape = "null"
  /\ (act.kind = "aiLoop" /\ act.m = "null") => turn = "Black"

\* ---- the AI's actions and the human-move path ----

\* select offers the square `to` of the piece at `from` with highlight `type`
StatedOffered(b, from, side, type, to) ==
  \E i \in 1..Len(highlightsFor(b, from, side)) :
    highlightsFor(b, from, side)[i] = [type |-> type, to |-> to]

\* the human-move path accepts the action m of `side` on b
StatedAccepted(b, side, m) ==
  /\ m.from \in DOMAIN b
  /\ ownerOf(b[m.from]) = side
  /\ LET lm == legalMovesFor(b, m.from) IN
     CASE m.kind = "move" /\ ~m.flag ->
            SeqHas(lm.moves, m.to) /\ StatedOffered(b, m.from, side, "move", m.to)
       [] m.kind = "move" /\ m.flag ->
            SeqHas(lm.captures, m.to) /\ StatedOffered(b, m.from, side, "capture", m.to)
       [] m.kind = "combine" ->
            SeqHas(lm.combines, m.to) /\ StatedOffered(b, m.from, side, "combine", m.to)
       [] m.kind = "scatter" ->
            \E i \in 1..Len(scatterBases(b, m.from)) :
              LET info == validateScatter(b, m.from, scatterBases(b, m.from)[i]) IN
              info.can /\ info.l1 = m.to /\ info.l2 = m.l2
       [] m.kind = "rotate" ->
            /\ isKing(b[m.from])
            /\ b[m.from].arrowDir # "none"
            /\ valueAt(b, m.from) >= 3
            /\ m.dir \in {"CW", "CCW"}
       [] OTHER -> FALSE

\* C15: every action enumerateMoves(board, side) returns acts on a piece of
\* `side` and is accepted by the human-move path: a move, capture or combine
\* destination is in the piece's legal set of that kind, a scatter is valid
\* from a base of scatterBases, a rotate is of a king with an arrow of value >= 3.
EnumeratedIsLegal ==
  result.fn = "enumerateMoves" =>
    \A i \in 1..Len(result.out.moves) : StatedAccepted(B, result.out.side, result.out.moves[i])

\* an enumeration holding a capture, a scatter and a rotation
EnumeratedIsLegalWitness ==
  /\ result.fn = "enumerateMoves"
  /\ \E i, j, k \in 1..Len(result.out.moves) :
       /\ result.out.moves[i].kind = "move" /\ result.out.moves[i].flag
       /\ result.out.moves[j].kind = "scatter"
       /\ result.out.moves[k].kind = "rotate"

\* ---- the worker's protocol ----

\* the responses posted for the k-th message handled
StatedResponsesTo(k) == {i \in 1..Len(outbox) : outbox[i].req = k}

\* the response carries one action of the highest score among the
\* enumerated ones, or null when there are none
StatedBestOrNull(resp, moves) ==
  IF Len(moves) = 0 THEN resp.shape = "null"
  ELSE /\ resp.shape = "one"
       /\ SeqHas(moves, resp.move)
       /\ \A j \in 1..Len(moves) : moves[j].score <= resp.move.score

\* C16: every "request" message gets exactly one response, carrying one
\* action of the highest score among enumerateMoves(board, turn) or null
\* when there are none; a message of another type gets no response; equal
\* requests get equal responses (no state is kept between requests).
WorkerAnswersBest ==
  /\ \A k \in 1..Len(handled) :
       Cardinality(StatedResponsesTo(k)) = (IF handled[k].type = "request" THEN 1 ELSE 0)
  /\ \A i \in 1..Len(outbox) :
       StatedBestOrNull(outbox[i], enumerateMoves(handled[outbox[i].req].board,
                                                  handled[outbox[i].req].turn))
  /\ \A i, j \in 1..Len(outbox) :
       (handled[outbox[i].req] = handled[outbox[j].req] /\ outbox[i].type = outbox[j].type)
         => [outbox[i] EXCEPT !.req = 0] = [outbox[j] EXCEPT !.req = 0]

\* ------------------------------------------------------------------------
\* SpecSetup: the rules engine queried on the standard initial layout
\* ------------------------------------------------------------------------

\* setupBoard.ts lines 36-45, row 0 at the top, one character per cell
LAYOUT ==
  << <<"w", "w", "W", "w", "w", "W", "w", "w">>,
     <<"w", "w", "w", "w", "w", "w", "w", "w">>,
     <<"w", ".", "w", ".", "w", ".", "w", ".">>,
     <<".", "w", ".", ".", ".", "w", ".", ".">>,
     <<".", ".", "b", ".", ".", ".", "b", ".">>,
     <<".", "b", ".", "b", ".", "b", ".", "b">>,
     <<"b", "b", "b", "b", "b", "b", "b", "b">>,
     <<"b", "b", "B", "b", "b", "B", "b", "b">> >>

layoutAt(sq) == LAYOUT[sq[1] + 1][sq[2] + 1]

initialBoard ==
  [sq \in {q \in Squares : layoutAt(q) # "."} |->
     CASE layoutAt(sq) = "w" -> makeSingle("White", FALSE)
       [] layoutAt(sq) = "W" -> makeSingle("White", TRUE)
       [] layoutAt(sq) = "b" -> makeSingle("Black", FALSE)
       [] layoutAt(sq) = "B" -> makeSingle("Black", TRUE)]

InitSetup ==
  /\ heap = HeapOf(initialBoard)
  /\ board = RefsOf(initialBoard)
  /\ Idle

SetupValue == \E pos \in Squares : Answer("valueAt", pos, pos, valueAt(B, pos))

SetupLegal == \E pos \in Squares : Answer("legalMovesFor", pos, pos, legalMovesFor(B, pos))

SetupLegalCell ==
  \E pos \in Squares : Answer("legalMovesFor_cell", pos, pos, legalMovesFor_cell(B, pos))

NextSetup ==
  \/ SetupValue
  \/ SetupLegal
  \/ SetupLegalCell

SpecSetup == InitSetup /\ [][NextSetup]_vars

\* the two bottom rows, filled with Black singles by LAYOUT
StatedHomeRows == {sq \in Squares : sq[1] >= BoardSize - 2}

StatedAround(from) == {q \in Squares : StatedAdjacent(from, q)}

StatedSetOf(seq) == {seq[i] : i \in 1..Len(seq)}

\* the legality query was answered for a Black single of the home rows
StatedHomeQuery ==
  /\ result.fn \in {"legalMovesFor", "legalMovesFor_cell"}
  /\ result.from \in StatedHomeRows
  /\ B[result.from] = makeSingle("Black", isKeyPiece(B[result.from]))

\* C17 as stated: on the initial layout the legality query for a Black
\* single of the Black home rows returns only one-step moves into empty
\* squares, no capture and no combine.
HomeRowOnlyMoves ==
  StatedHomeQuery =>
    /\ StatedSetOf(result.out.moves) \subseteq {q \in StatedAround(result.from) : q \notin DOMAIN B}
    /\ result.out.captures = << >>
    /\ result.out.combines = << >>

\* C17 amended: on the initial layout the legality query for a Black single
\* of the Black home rows returns no capture, as moves exactly the adjacent
\* empty squares, and as combines exactly the adjacent Black non-key singles
\* when the piece is not a key piece, none when it is.
HomeRowMovesAndCombines ==
  StatedHomeQuery =>
    /\ StatedSetOf(result.out.moves) = {q \in StatedAround(result.from) : q \notin DOMAIN B}
    /\ result.out.captures = << >>
    /\ StatedSetOf(result.out.combines) =
         (IF isKeyPiece(B[result.from]) THEN {}
          ELSE {q \in StatedAround(result.from) :
                  q \in DOMAIN B /\ B[q] = makeSingle("Black", FALSE)})

\* a home-row single that may step forward and may combine with a neighbour
HomeRowMovesAndCombinesWitness ==
  /\ StatedHomeQuery
  /\ result.from = <<6, 0>>
  /\ result.out.moves = << <<5, 0>> >>
  /\ Len(result.out.combines) = 4

\* ---- combining two singles ----

\* the compass direction of one step from a to b
StatedCompass(a, b) ==
  CASE b[1] < a[1] /\ b[2] = a[2] -> "N"
    [] b[1] < a[1] /\ b[2] > a[2] -> "NE"
    [] b[1] = a[1] /\ b[2] > a[2] -> "E"
    [] b[1] > a[1] /\ b[2] > a[2] -> "SE"
    [] b[1] > a[1] /\ b[2] = a[2] -> "S"
    [] b[1] > a[1] /\ b[2] < a[2] -> "SW"
    [] b[1] = a[1] /\ b[2] < a[2] -> "W"
    [] b[1] < a[1] /\ b[2] < a[2] -> "NW"
    [] OTHER -> "none"

\* post is pre after the combine of from onto `onto`
StatedCombined(pre, post, from, onto) ==
  /\ onto \in DOMAIN post
  /\ Len(post[onto].counters) = 2
  /\ isKing(post[onto])
  /\ \E i, j \in 1..2 :
       /\ i # j
       /\ post[onto].counters[i] = pre[onto].counters[1]
       /\ post[onto].counters[j] = pre[from].counters[1]
  /\ post[onto].arrowDir = StatedCompass(from, onto)
  /\ from \notin DOMAIN post
  /\ DOMAIN post = DOMAIN pre \ {from}
  /\ \A sq \in DOMAIN post \ {onto} : post[sq] = pre[sq]

\* C18: a legal combine from `from` onto the adjacent `onto`, applied by
\* actCombine or by applyMoveClone, yields a board where `onto` holds a king
\* of exactly the two original counters whose arrowDir is the compass
\* direction from `from` to `onto`, `from` is empty, and every other square
\* is unchanged.
CombineMakesKing ==
  [][/\ (act'.kind = "actCombine"
           /\ SeqHas(legalMovesFor(B, act'.from).combines, act'.to))
          => StatedCombined(B, Deref(heap', board'), act'.from, act'.to)
     /\ (act'.kind = "applyMoveClone" /\ act'.m = "combine"
           /\ SeqHas(legalMovesFor(Deref(heap, IF act'.on = "board" THEN board ELSE hyp),
                                   act'.from).combines, act'.to))
          => StatedCombined(Deref(heap, IF act'.on = "board" THEN board ELSE hyp),
                            Deref(heap', hyp'), act'.from, act'.to)]_vars

\* the first action combined the single of <<0, 1>> onto the one of <<0, 0>>
CombineMakesKingWitness ==
  /\ steps = 1
  /\ act.kind = "actCombine"
  /\ act.from = <<0, 1>>
  /\ act.to = <<0, 0>>
  /\ Len(history) = 1
  /\ DOMAIN B = {<<0, 0>>}
  /\ B[<<0, 0>>].arrowDir = "W"
  /\ Len(B[<<0, 0>>].counters) = 2

\* ------------------------------------------------------------------------
\* part_003: legalMovesFor with the slide of a king of value 3
\* ------------------------------------------------------------------------

STEP_DIRS ==
  << <<-1, 0>>, <<-1, 1>>, <<0, 1>>, <<1, 1>>, <<1, 0>>, <<1, -1>>, <<0, -1>>, <<-1, -1>> >>

\* the while loop of the slide: the empty squares, then the first blocker
\* as a capture when it is an enemy of value <= myVal
RECURSIVE slideWalk_part3(_, _, _, _, _, _, _)
slideWalk_part3(b, r, c, dr, dc, me, myVal) ==
  IF ~inBounds(r, c) THEN [moves |-> << >>, captures |-> << >>]
  ELSE LET q == pieceAt(b, <<r, c>>) IN
       IF q = NoPiece
       THEN LET rest == slideWalk_part3(b, r + dr, c + dc, dr, dc, me, myVal)
            IN [moves |-> << <<r, c>> >> \o rest.moves, captures |-> rest.captures]
       ELSE [moves |-> << >>,
             captures |-> IF ownerOf(q) # me /\ valueAt_cell(b, <<r, c>>) <= myVal
                          THEN << <<r, c>> >> ELSE << >>]

legalMovesFor_part3(b, from) ==
  LET p == pieceAt(b, from) IN
  IF p = NoPiece THEN NoMoves_cell
  ELSE
    LET me    == ownerOf(p)
        myVal == valueAt_cell(b, from)
    IN
    IF myVal <= 0 THEN NoMoves_cell
    ELSE
      LET steps1 == SelectSeq([i \in 1..Len(STEP_DIRS) |-> Add(from, STEP_DIRS[i], 1)],
                              LAMBDA q : inBounds(q[1], q[2]))
          moverIsSingleNonKey == ~isKing(p) /\ ~p.counters[1].isKey
          qIsSingleNonKey(q)  == ~isKing(q) /\ ~q.counters[1].isKey
          arrow == isKing(p) /\ p.arrowDir # "none"
          d  == IF arrow THEN DIRS[p.arrowDir] ELSE <<0, 0>>
          s1 == Add(from, d, 1)
          s2 == Add(from, d, 2)
          twoOn == /\ arrow /\ myVal = 2 /\ inBounds(s1[1], s1[2]) /\ inBounds(s2[1], s2[2])
                   /\ pieceAt(b, s1) = NoPiece
          twoMove == IF twoOn /\ pieceAt(b, s2) = NoPiece THEN <<s2>> ELSE << >>
          twoCapture == IF twoOn /\ pieceAt(b, s2) # NoPiece /\ ownerOf(pieceAt(b, s2)) # me
                           /\ valueAt_cell(b, s2) <= myVal
                        THEN <<s2>> ELSE << >>
          slide == IF arrow /\ myVal >= 3
                   THEN slideWalk_part3(b, s1[1], s1[2], d[1], d[2], me, myVal)
                   ELSE [moves |-> << >>, captures |-> << >>]
      IN [moves     |-> SelectSeq(steps1, LAMBDA q : pieceAt(b, q) = NoPiece)
                          \o twoMove \o slide.moves,
          captures  |-> SelectSeq(steps1, LAMBDA q : pieceAt(b, q) # NoPiece
                                                      /\ ownerOf(pieceAt(b, q)) # me
                                                      /\ valueAt_cell(b, q) <= myVal)
                          \o twoCapture \o slide.captures,
          combines  |-> SelectSeq(steps1, LAMBDA q : pieceAt(b, q) # NoPiece
                                                      /\ ownerOf(pieceAt(b, q)) = me
                                                      /\ moverIsSingleNonKey
                                                      /\ qIsSingleNonKey(pieceAt(b, q))),
          scatters  |-> << >>,
          rotations |-> << >>]

\* ------------------------------------------------------------------------
\* SpecSlide: a king queried with a blocker somewhere down its arrow
\* ------------------------------------------------------------------------

SlideFrom == <<1, 0>>

SlideArrows == {"E", "SE"}

MaxSlide == 4

SlideBlockers ==
  {makeSingle("White", FALSE), makeSingle("White", TRUE), makeSingle("Black", FALSE),
   makeKing("White", "N"), makeKing("White", "W")}

\* the Black king on SlideFrom aimed along a, a Black king above it aimed
\* at it when boost (value 3, else 2), a blocker k squares down the arrow,
\* possibly a White single right behind the blocker, and, when guards, a
\* White king above and one below the blocker, both aimed at it
SlideBoard(a, boost, k, blocker, behind, guards) ==
  LET occ == {SlideFrom}
               \cup (IF boost THEN {<<0, 0>>} ELSE {})
               \cup (IF k > 0 THEN {Add(SlideFrom, DIRS[a], k)} ELSE {})
               \cup (IF k > 0 /\ behind THEN {Add(SlideFrom, DIRS[a], k + 1)} ELSE {})
               \cup (IF k > 0 /\ guards
                     THEN {Add(Add(SlideFrom, DIRS[a], k), DIRS["N"], 1),
                           Add(Add(SlideFrom, DIRS[a], k), DIRS["S"], 1)}
                     ELSE {})
  IN [sq \in occ |->
        IF sq = SlideFrom THEN makeKing("Black", a)
        ELSE IF sq = <<0, 0>> THEN makeKing("Black", "S")
        ELSE IF sq = Add(SlideFrom, DIRS[a], k) THEN blocker
        ELSE IF guards /\ sq = Add(Add(SlideFrom, DIRS[a], k), DIRS["N"], 1)
        THEN makeKing("White", "S")
        ELSE IF guards /\ sq = Add(Add(SlideFrom, DIRS[a], k), DIRS["S"], 1)
        THEN makeKing("White", "N")
        ELSE makeSingle("White", FALSE)]

SlideBoards ==
  {SlideBoard(a, boost, k, blocker, behind, guards) :
     a \in SlideArrows, boost \in BOOLEAN, k \in 0..MaxSlide, blocker \in SlideBlockers,
     behind \in BOOLEAN, guards \in BOOLEAN}

InitSlide ==
  /\ \E pl \in SlideBoards : heap = HeapOf(pl) /\ board = RefsOf(pl)
  /\ Idle

SlideArrowMoves ==
  LET p == pieceAt(B, SlideFrom) IN
  Answer("generateKingArrowMoves", SlideFrom, SlideFrom,
         LET hs == generateKingArrowMoves(B, SlideFrom, p, valueAt(B, SlideFrom), ownerOf(p))
         IN [moves    |-> [i \in 1..Len(SelectSeq(hs, LAMBDA h : h.type = "move")) |->
                             SelectSeq(hs, LAMBDA h : h.type = "move")[i].to],
             captures |-> [i \in 1..Len(SelectSeq(hs, LAMBDA h : h.type = "capture")) |->
                             SelectSeq(hs, LAMBDA h : h.type = "capture")[i].to]])

SlideLegalPart3 ==
  Answer("legalMovesFor_part3", SlideFrom, SlideFrom, legalMovesFor_part3(B, SlideFrom))

SlideLegalCell ==
  Answer("legalMovesFor_cell", SlideFrom, SlideFrom, legalMovesFor_cell(B, SlideFrom))

NextSlide ==
  \/ SlideArrowMoves
  \/ SlideLegalPart3
  \/ SlideLegalCell

SpecSlide == InitSlide /\ [][NextSlide]_vars

\* the squares down the arrow of the king at from, nearest first
StatedLine(b, from) ==
  {Add(from, DIRS[b[from].arrowDir], k) : k \in 1..BoardSize} \cap Squares

StatedDistance(from, q) == Max(Abs(q[1] - from[1]), Abs(q[2] - from[2]))

\* q is the first occupied square down the arrow
StatedFirstBlocker(b, from, q) ==
  /\ q \in StatedLine(b, from)
  /\ q \in DOMAIN b
  /\ \A x \in StatedLine(b, from) :
       StatedDistance(from, x) < StatedDistance(from, q) => x \notin DOMAIN b

\* C19: for a king with an arrow of value 3 the destinations down the arrow
\* are, as moves, the empty squares before the first occupied square and,
\* as a capture, that first occupied square exactly when it holds an enemy
\* of value <= the king's; nothing beyond it, nothing for a friendly blocker.
SlideStopsAtBlocker ==
  (/\ result.fn \in {"generateKingArrowMoves", "legalMovesFor_part3", "legalMovesFor_cell"}
   /\ valueAt(B, result.from) = 3)
  => /\ StatedSetOf(result.out.moves) \cap StatedLine(B, result.from)
          = {q \in StatedLine(B, result.from) :
               \A x \in StatedLine(B, result.from) :
                 StatedDistance(result.from, x) <= StatedDistance(result.from, q)
                   => x \notin DOMAIN B}
     /\ StatedSetOf(result.out.captures) \cap StatedLine(B, result.from)
          = {q \in StatedLine(B, result.from) :
               /\ StatedFirstBlocker(B, result.from, q)
               /\ ownerOf(B[q]) # ownerOf(B[result.from])
               /\ valueAt(B, q) <= valueAt(B, result.from)}

\* ---- a scatter onto two empty squares ----

\* part_005 lines 27-57: the scatter validation without a gate on the value
validateScatter_part5(b, from, base) ==
  LET me == pieceAt(b, from) IN
  IF me = NoPiece \/ ~isKing(me) \/ me.arrowDir = "none"
  THEN [l1 |-> base, l2 |-> base, can |-> FALSE, reason |-> "Not a king"]
  ELSE
    LET d  == DIRS[me.arrowDir]
        l1 == Add(base, d, 1)
        l2 == Add(base, d, 2)
        q1 == pieceAt(b, l1)
        q2 == pieceAt(b, l2)
    IN IF ~inBounds(l1[1], l1[2]) \/ ~inBounds(l2[1], l2[2])
       THEN [l1 |-> l1, l2 |-> l2, can |-> FALSE, reason |-> "Off board"]
       ELSE IF q1 # NoPiece /\ ownerOf(q1) = ownerOf(me)
       THEN [l1 |-> l1, l2 |-> l2, can |-> FALSE, reason |-> "Ally on l1"]
       ELSE IF q2 # NoPiece /\ ownerOf(q2) = ownerOf(me)
       THEN [l1 |-> l1, l2 |-> l2, can |-> FALSE, reason |-> "Ally on l2"]
       ELSE IF enemySumOf(b, me, l1, l2) > valueAt(b, from)
       THEN [l1 |-> l1, l2 |-> l2, can |-> FALSE, reason |-> "Over budget"]
       ELSE [l1 |-> l1, l2 |-> l2, can |-> TRUE, reason |-> "undefined"]

\* validateScatter was asked about a king with an arrow and a base whose two
\* landing squares are on the board and empty
StatedPureSplit ==
  /\ result.fn = "validateScatter"
  /\ result.from \in DOMAIN B
  /\ Len(B[result.from].counters) = 2
  /\ B[result.from].arrowDir # "none"
  /\ \A k \in 1..2 :
       /\ StatedLanding(B, result.from, result.base, k) \in Squares
       /\ StatedLanding(B, result.from, result.base, k) \notin DOMAIN B

StatedCause(b, from, base) ==
  IF \E k \in 1..2 : StatedLanding(b, from, base, k) \notin Squares THEN "offboard"
  ELSE IF ~StatedLandingsFree(b, from, StatedLanding(b, from, base, 1),
                              StatedLanding(b, from, base, 2)) THEN "ally-block"
  ELSE IF StatedEnemySum(b, from, StatedLanding(b, from, base, 1),
                         StatedLanding(b, from, base, 2)) > valueAt(b, from)
  THEN "capture-sum-exceeds"
  ELSE "none"

\* the answer `out` refuses with the stated reason and carries the two
\* landing squares of the base
StatedRefusal(b, from, base, out) ==
  /\ out.l1 = StatedLanding(b, from, base, 1)
  /\ out.l2 = StatedLanding(b, from, base, 2)
  /\ StatedCause(b, from, base) # "none"
       => ~out.can /\ out.reason = StatedCause(b, from, base)

\* C21: for a king with an arrow of value >= 2, validateScatter answers with
\* l1 = base + dir and l2 = base + 2*dir, and refuses with can = false and the
\* reason "offboard" when a landing square is off the board, else "ally-block"
\* when a friendly piece is on a landing square, else "capture-sum-exceeds"
\* when the enemies on the landing squares sum to more than the king's value.
ScatterRefusalNamed ==
  (/\ result.fn = "validateScatter"
   /\ StatedScatterKing(B, result.from)
   /\ valueAt(B, result.from) >= 2)
    => StatedRefusal(B, result.from, result.base, result.out)

\* ------------------------------------------------------------------------
\* The board view of part_000 over the store whose actions leave the turn
\* alone (gameStore.ts lines 1-192): clicks, the animation timeout, rotation
\* ------------------------------------------------------------------------

\* gameStore.ts lines 97-112: the copy of the board with the old piece object
\* put on `to`; the board as it was when `from` is empty
moved_v1(h, rb, from, to, isCapture) ==
  IF pieceAt(Deref(h, rb), from) = NoPiece THEN [heap |-> h, refs |-> rb, done |-> FALSE]
  ELSE [heap |-> CopyCells(h, rb).heap,
        refs |-> clearCell(setCell(IF isCapture THEN clearCell(CopyCells(h, rb).refs, to)
                                   ELSE CopyCells(h, rb).refs,
                                   to, rb[from]),
                           from),
        done |-> TRUE]

\* the king that actCombine puts on `onto`
kingOf(a, b, from, onto) ==
  [counters |-> b.counters \o a.counters,
   arrowDir |-> DIR_FROM_DELTA(sign(onto[1] - from[1]), sign(onto[2] - from[2]))]

\* gameStore.ts lines 114-138
combined_v1(h, rb, from, onto) ==
  IF \/ pieceAt(Deref(h, rb), from) = NoPiece
     \/ pieceAt(Deref(h, rb), onto) = NoPiece
     \/ isKing(pieceAt(Deref(h, rb), from)) \/ isKing(pieceAt(Deref(h, rb), onto))
     \/ isKeyPiece(pieceAt(Deref(h, rb), from)) \/ isKeyPiece(pieceAt(Deref(h, rb), onto))
     \/ ownerOf(pieceAt(Deref(h, rb), from)) # ownerOf(pieceAt(Deref(h, rb), onto))
  THEN [heap |-> h, refs |-> rb, done |-> FALSE]
  ELSE [heap |-> Append(CopyCells(h, rb).heap,
                        kingOf(pieceAt(Deref(h, rb), from), pieceAt(Deref(h, rb), onto),
                               from, onto)),
        refs |-> clearCell(setCell(CopyCells(h, rb).refs, onto, Len(CopyCells(h, rb).heap) + 1),
                           from),
        done |-> TRUE]

\* const legal = useMemo(...): nothing while a rotation is being previewed
legalOf(b, sel, rotating) ==
  IF sel = NoCoord \/ rotating THEN NoMoves ELSE legalMovesFor(b, sel)

\* the store's select as the view calls it
selectIn(b, pos, player) ==
  IF pos = NoCoord \/ pieceAt(b, pos) = NoPiece \/ ownerOf(pieceAt(b, pos)) # player
  THEN [selected |-> NoCoord, highlights |-> << >>]
  ELSE [selected |-> pos, highlights |-> highlightsFor(b, pos, player)]

\* part_000 lines 129-147: window.setTimeout(() => { ...; endTurn() }, 180)
schedule(pos, legal) ==
  /\ Stamp([NoAct EXCEPT !.kind = "onSquareClick", !.on = "view", !.from = selected,
                             !.to = pos])
  /\ animTimer' = [NoAct EXCEPT !.kind = IF SeqHas(legal.combines, pos) THEN "actCombine"
                                         ELSE "actMove",
                                !.on = "store", !.from = selected, !.to = pos,
                                !.flag = SeqHas(legal.captures, pos)]
  /\ UNCHANGED <<heap, board, turn, selected, highlights, history, hyp, given, result,
                 rotateMode, previewDir>>

\* the view calls select(pos)
reselect(pos, sel) ==
  /\ Stamp([NoAct EXCEPT !.kind = "select", !.on = "store", !.from = pos])
  /\ selected' = sel.selected
  /\ highlights' = sel.highlights
  /\ UNCHANGED <<heap, board, turn, history, hyp, given, result, rotateMode, previewDir,
                 animTimer>>

\* part_000 lines 100-155: a click on a square (scatter mode is off)
onSquareClick_part0(pos) ==
  /\ ~rotateMode
  /\ IF selected = NoCoord
     THEN /\ pieceAt(B, pos) # NoPiece
          /\ ownerOf(pieceAt(B, pos)) = turn
          /\ reselect(pos, selectIn(B, pos, turn))
     ELSE IF \/ SeqHas(legalOf(B, selected, rotateMode).moves, pos)
             \/ SeqHas(legalOf(B, selected, rotateMode).captures, pos)
             \/ SeqHas(legalOf(B, selected, rotateMode).combines, pos)
     THEN schedule(pos, legalOf(B, selected, rotateMode))
     ELSE IF pieceAt(B, pos) # NoPiece /\ ownerOf(pieceAt(B, pos)) = turn
     THEN reselect(pos, selectIn(B, pos, turn))
     ELSE reselect(NoCoord, selectIn(B, NoCoord, turn))

\* the store after the action of the timeout, r being what the action built:
\* the action sets the board and clears the selection unless it returned
\* early, and endTurn() follows in either case
commit_part0(t, r) ==
  /\ Stamp([t EXCEPT !.on = "timeout"])
  /\ animTimer' = NoAct
  /\ heap' = r.heap
  /\ board' = r.refs
  /\ selected' = IF r.done THEN NoCoord ELSE selected
  /\ highlights' = IF r.done THEN << >> ELSE highlights
  /\ given' = IF r.done THEN Append(given, Kept(board, B)) ELSE given
  /\ turn' = other(turn)
  /\ UNCHANGED <<history, hyp, result, rotateMode, previewDir>>

\* part_000 lines 139-146: the timeout fires
animTimeout_part0 ==
  /\ animTimer # NoAct
  /\ commit_part0(animTimer,
                  IF animTimer.kind = "actCombine"
                  THEN combined_v1(heap, board, animTimer.from, animTimer.to)
                  ELSE moved_v1(heap, board, animTimer.from, animTimer.to, animTimer.flag))

MaxEvents == 5

\* a Black king of two counters on <<0, 1>>, alone or with a White single
ViewBoards ==
  {pl \in RotateBoards :
     \A sq \in DOMAIN pl \ {<<0, 1>>} : ~isKing(pl[sq]) /\ ownerOf(pl[sq]) = "White"}

InitView0 ==
  /\ \E pl \in ViewBoards : heap = HeapOf(pl) /\ board = RefsOf(pl)
  /\ Idle

\* the rotation handlers leave the timeout alone, a click may set it
NextView0 ==
  /\ steps < MaxEvents
  /\ \/ \E pos \in Region : onSquareClick_part0(pos)
     \/ animTimeout_part0
     \/ (\E dir \in {"E", "SW"} : handleOrient(dir)) /\ UNCHANGED animTimer
     \/ cycleRotationCW /\ UNCHANGED animTimer
     \/ confirmRotation /\ UNCHANGED animTimer
     \/ cancelRotation /\ UNCHANGED animTimer

SpecView0 == InitView0 /\ [][NextView0]_vars

\* C22: in every step of the game the selected square, if any, holds a piece
\* of the player to move, and a step that changes the board acts on a piece
\* (the one on the square the action starts from) of the player whose turn it
\* is before the step.
OnlySideToMoveActs ==
  [][/\ selected' # NoCoord
          => /\ pieceAt(Deref(heap', board'), selected') # NoPiece
             /\ ownerOf(pieceAt(Deref(heap', board'), selected')) = turn'
     /\ Deref(heap', board') # B
          => /\ pieceAt(B, act'.from) # NoPiece
             /\ ownerOf(pieceAt(B, act'.from)) = turn]_vars

\* ---- C23 ----

\* the squares two or more steps away from `from`
StatedFar(from) == {q \in Squares : StatedDistance(from, q) >= 2}

\* the square k steps down the arrow of the king at from
StatedStep(b, from, k) == Add(from, DIRS[b[from].arrowDir], k)

\* both squares are on the board and the first is empty
StatedTwoStepOpen(b, from) ==
  /\ StatedStep(b, from, 1) \in Squares
  /\ StatedStep(b, from, 2) \in Squares
  /\ StatedStep(b, from, 1) \notin DOMAIN b

\* C23: for a king with an arrow whose value is exactly 2, the destinations
\* beyond the adjacent squares are: as a move, the square two steps down the
\* arrow when it and the square before it are on the board and both empty;
\* as a capture, that square when the square before it is empty and it holds
\* an enemy of value <= the king's; nothing else (no friendly or stronger
\* target, no slide of three or more), and generateKingArrowMoves offers
\* nothing but that one square.
TwoStepAtTierTwo ==
  (/\ result.fn \in {"generateKingArrowMoves", "legalMovesFor_part3", "legalMovesFor_cell"}
   /\ valueAt(B, result.from) = 2)
  => /\ StatedSetOf(result.out.moves) \cap StatedFar(result.from)
          = IF /\ StatedTwoStepOpen(B, result.from)
               /\ StatedStep(B, result.from, 2) \notin DOMAIN B
            THEN {StatedStep(B, result.from, 2)} ELSE {}
     /\ StatedSetOf(result.out.captures) \cap StatedFar(result.from)
          = IF /\ StatedTwoStepOpen(B, result.from)
               /\ StatedStep(B, result.from, 2) \in DOMAIN B
               /\ ownerOf(B[StatedStep(B, result.from, 2)]) # ownerOf(B[result.from])
               /\ valueAt(B, StatedStep(B, result.from, 2)) <= valueAt(B, result.from)
            THEN {StatedStep(B, result.from, 2)} ELSE {}
     /\ result.fn = "generateKingArrowMoves"
          => /\ StatedSetOf(result.out.moves) \cup StatedSetOf(result.out.captures)
                  \subseteq {StatedStep(B, result.from, 2)}
             /\ Len(result.out.moves) + Len(result.out.captures) <= 1

\* a king of value 2 was offered the capture of the enemy two steps down its
\* arrow
TwoStepAtTierTwoWitness ==
  /\ result.fn \in {"generateKingArrowMoves", "legalMovesFor_part3", "legalMovesFor_cell"}
  /\ valueAt(B, result.from) = 2
  /\ StatedSetOf(result.out.captures) \cap StatedFar(result.from) # {}

\* ---- C24 ----

\* the number of empty on-board squares down the arrow of the king at from
\* before the first occupied square or the edge
StatedOpenRun(b, from) ==
  Cardinality({k \in 1..BoardSize :
                 \A j \in 1..k : StatedStep(b, from, j) \in Squares \ DOMAIN b})

\* a king with an arrow stands on from
StatedArrowKing(b, from) ==
  /\ from \in DOMAIN b
  /\ Len(b[from].counters) >= 2
  /\ b[from].arrowDir # "none"

\* C24: scatterBases of a square of the board is the empty list when the
\* square holds no king with an arrow; for a king with an arrow of value below
\* 3 it is the list of `from` alone; for one of value >= 3 it is `from`
\* followed, nearest first, by exactly the empty squares down the arrow before
\* the first occupied square or the edge of the board.
ScatterBasesExact ==
  (result.fn = "scatterBases" /\ result.from \in Squares)
  => IF ~StatedArrowKing(B, result.from) THEN result.out = << >>
     ELSE IF valueAt(B, result.from) < 3 THEN result.out = <<result.from>>
     ELSE /\ Len(result.out) = 1 + StatedOpenRun(B, result.from)
          /\ result.out[1] = result.from
          /\ \A k \in 1..StatedOpenRun(B, result.from) :
               result.out[k + 1] = StatedStep(B, result.from, k)

\* a king of value 3 got its own square and one empty square, the next square
\* down its arrow being occupied
ScatterBasesExactWitness ==
  /\ result.fn = "scatterBases"
  /\ StatedArrowKing(B, result.from)
  /\ valueAt(B, result.from) >= 3
  /\ Len(result.out) = 2
  /\ StatedStep(B, result.from, 2) \in DOMAIN B

\* ------------------------------------------------------------------------
\* Scatters that validateScatter accepts, applied by the store (both versions
\* of actScatter) and by the search
\* ------------------------------------------------------------------------

\* gameStore.ts lines 166-183: the copy c of the board with the enemies on
\* the landing squares removed, two new singles placed and the king cleared
scatterOn_v1(b, c, from, l1, l2, me) ==
  [heap |-> c.heap \o <<scatterSingle(me), scatterSingle(me)>>,
   refs |-> clearCell(
              setCell(
                setCell(
                  clearCell(
                    clearCell(c.refs,
                              IF pieceAt(b, l1) # NoPiece /\ ownerOf(pieceAt(b, l1)) # me
                              THEN l1 ELSE NoCoord),
                    IF pieceAt(b, l2) # NoPiece /\ ownerOf(pieceAt(b, l2)) # me
                    THEN l2 ELSE NoCoord),
                  l1, Len(c.heap) + 1),
                l2, Len(c.heap) + 2),
              from),
   done |-> TRUE]

\* gameStore.ts lines 160-186
scattered_v1(h, rb, from, l1, l2) ==
  IF pieceAt(Deref(h, rb), from) = NoPiece \/ ~isKing(pieceAt(Deref(h, rb), from))
  THEN [heap |-> h, refs |-> rb, done |-> FALSE]
  ELSE scatterOn_v1(Deref(h, rb), CopyCells(h, rb), from, l1, l2,
                    ownerOf(pieceAt(Deref(h, rb), from)))

\* the store after actScatter of lines 160-186: the turn is left alone
storeAfter_v1(r) ==
  /\ heap' = r.heap
  /\ board' = r.refs
  /\ selected' = IF r.done THEN NoCoord ELSE selected
  /\ highlights' = IF r.done THEN << >> ELSE highlights
  /\ given' = IF r.done THEN Append(given, Kept(board, B)) ELSE given
  /\ UNCHANGED <<turn, history, hyp, result, rotateMode, previewDir>>

actScatter_v1(from, l1, l2) ==
  /\ Stamp([NoAct EXCEPT !.kind = "actScatter", !.on = "store-v1", !.from = from, !.to = l1,
                         !.l2 = l2])
  /\ storeAfter_v1(scattered_v1(heap, board, from, l1, l2))

\* the landing squares of the scatters the caller may commit
ScatterBasesTried == {<<0, 0>>, <<0, 1>>, <<0, 2>>}

\* validateScatter accepted the scatter of the king at from onto l1 and l2
StatedValidated(b, from, l1, l2) ==
  \E base \in Squares :
    /\ validateScatter(b, from, base).can
    /\ validateScatter(b, from, base).l1 = l1
    /\ validateScatter(b, from, base).l2 = l2

scatterMove(from, v) == [NoMove EXCEPT !.kind = "scatter", !.from = from, !.to = v.l1, !.l2 = v.l2]

\* one accepted scatter is applied
ScatterBy(from, v) ==
  /\ v.can
  /\ \/ actScatter(from, v.l1, v.l2)
     \/ actScatter_v1(from, v.l1, v.l2)
     \/ Apply("board", scatterMove(from, v))

NextScatter ==
  /\ steps < 1
  /\ UNCHANGED animTimer
  /\ \E from \in Region, base \in ScatterBasesTried : ScatterBy(from, validateScatter(B, from, base))

SpecScatter == InitRules /\ [][NextScatter]_vars

\* ---- C25 ----

\* the board nb is the board b after the scatter: the king's square empty, a
\* plain single of the owner without arrow on each landing square, the rest
\* as it was
StatedScattered(b, nb, from, l1, l2) ==
  /\ from \notin DOMAIN nb
  /\ \A l \in {l1, l2} :
       /\ l \in DOMAIN nb
       /\ Len(nb[l].counters) = 1
       /\ nb[l].counters[1].owner = b[from].counters[1].owner
       /\ nb[l].counters[1].isKey # "true"
       /\ nb[l].arrowDir = "none"
  /\ \A sq \in Squares \ {from, l1, l2} : pieceAt(nb, sq) = pieceAt(b, sq)

\* C25: a step that applies a scatter validateScatter accepts (actScatter of
\* either version of the store, applyMoveClone of the search) leaves the
\* king's square empty, puts on each landing square a single of the king's
\* owner that is no key piece and has no arrow, whatever enemy stood there
\* being gone, and leaves every other square as it was.
ScatterApplied ==
  [][(/\ act'.kind \in {"actScatter", "applyMoveClone"}
      /\ act'.kind = "applyMoveClone" => act'.m = "scatter"
      /\ StatedValidated(B, act'.from, act'.to, act'.l2))
     => StatedScattered(B,
                        IF act'.kind = "applyMoveClone" THEN Deref(heap', hyp')
                        ELSE Deref(heap', board'),
                        act'.from, act'.to, act'.l2)]_vars

\* an accepted scatter was applied onto a square that held an enemy
ScatterAppliedWitness ==
  /\ act.kind \in {"actScatter", "applyMoveClone"}
  /\ given # << >>
  /\ StatedValidated(given[1].val, act.from, act.to, act.l2)
  /\ \E l \in {act.to, act.l2} :
       /\ l \in DOMAIN given[1].val
       /\ given[1].val[l].counters[1].owner # given[1].val[act.from].counters[1].owner

\* ------------------------------------------------------------------------
\* The rotation handlers of Board.tsx lines 113-1013 over the actRotateArrow of
\* gameStore.ts lines 140-158
\* ------------------------------------------------------------------------

\* const selectedIsKing
selectedIsKing(b, sel) == sel # NoCoord /\ pieceAt(b, sel) # NoPiece /\ isKing(pieceAt(b, sel))

\* const friendlySelected
friendlySelected(b, sel, player) ==
  sel # NoCoord /\ pieceAt(b, sel) # NoPiece /\ ownerOf(pieceAt(b, sel)) = player

\* the view's rotation state becomes (mode, dir); the store is left alone
setRotate(a, mode, dir) ==
  /\ Stamp(a)
  /\ rotateMode' = mode
  /\ previewDir' = dir
  /\ UNCHANGED <<heap, board, turn, selected, highlights, history, hyp, given, result>>

\* Board.tsx lines 282-288; a call that returns early changes nothing
cycleCW(a) ==
  /\ selectedIsKing(B, selected)
  /\ friendlySelected(B, selected, turn)
  /\ setRotate(a, TRUE,
               IF previewDir # "none" THEN nextCW(previewDir)
               ELSE IF pieceAt(B, selected).arrowDir # "none"
               THEN nextCW(pieceAt(B, selected).arrowDir)
               ELSE "N")

\* Board.tsx lines 290-295, reached from a dot, which line 884 draws only
\* under canOrientNow
handleOrient_v1(dir) ==
  /\ canOrientNow(B, selected, turn)
  /\ setRotate([NoAct EXCEPT !.kind = "handleOrient", !.on = "dot", !.from = selected,
                             !.dir = dir],
               TRUE, dir)

\* Board.tsx lines 598-612: the Rotate button, drawn under canOrientNow
rotateButton ==
  /\ canOrientNow(B, selected, turn)
  /\ setRotate([NoAct EXCEPT !.kind = "rotateButton", !.on = "button", !.from = selected],
               ~rotateMode,
               IF rotateMode THEN "none"
               ELSE IF pieceAt(B, selected).arrowDir # "none"
               THEN nextCW(pieceAt(B, selected).arrowDir)
               ELSE "N")

\* Board.tsx lines 296-311: actRotateArrow(selected, previewDir as any); the
\* store leaves the turn alone, so the selection stays
confirmRotation_v1(a) ==
  /\ Stamp([a EXCEPT !.dir = previewDir])
  /\ heap' = IF selectedIsKing(B, selected) /\ previewDir # "none"
             THEN rotated(heap, board, selected, previewDir).heap ELSE heap
  /\ board' = IF selectedIsKing(B, selected) /\ previewDir # "none"
              THEN rotated(heap, board, selected, previewDir).refs ELSE board
  /\ given' = IF selectedIsKing(B, selected) /\ previewDir # "none"
                 /\ rotated(heap, board, selected, previewDir).refs # board
              THEN Append(given, Kept(board, B)) ELSE given
  /\ rotateMode' = FALSE
  /\ previewDir' = "none"
  /\ UNCHANGED <<turn, selected, highlights, history, hyp, result>>

\* Board.tsx lines 619 and 629: Cycle and Confirm, drawn under canOrientNow
\* while rotateMode
rotatePanel ==
  /\ canOrientNow(B, selected, turn)
  /\ rotateMode
  /\ \/ cycleCW([NoAct EXCEPT !.kind = "cycleCW", !.on = "button", !.from = selected])
     \/ confirmRotation_v1([NoAct EXCEPT !.kind = "confirmRotation", !.on = "button",
                                         !.from = selected])

\* Board.tsx lines 332-378: the keys R, Enter and Escape (hotseat, no winner,
\* scatter mode off)
onKey(key) ==
  /\ selected # NoCoord
  /\ friendlySelected(B, selected, turn)
  /\ \/ /\ key = "r"
        /\ cycleCW([NoAct EXCEPT !.kind = "cycleCW", !.on = "key", !.from = selected])
     \/ /\ key = "Enter"
        /\ rotateMode
        /\ confirmRotation_v1([NoAct EXCEPT !.kind = "confirmRotation", !.on = "key",
                                            !.from = selected])
     \/ /\ key = "Escape"
        /\ rotateMode
        /\ cancelRotation

Keys == {"r", "Enter", "Escape"}

MaxKeys == 3

NextView1 ==
  /\ steps < MaxKeys
  /\ UNCHANGED animTimer
  /\ \/ \E pos \in RotateClicks : select(pos)
     \/ \E dir \in {"E", "SW"} : handleOrient_v1(dir)
     \/ rotateButton
     \/ rotatePanel
     \/ \E key \in Keys : onKey(key)

SpecView1 == InitRotate /\ [][NextView1]_vars

\* ---- C26 ----

StatedRing == <<"N", "NE", "E", "SE", "S", "SW", "W", "NW", "N">>

StatedNext(d) == StatedRing[(CHOOSE i \in 1..8 : StatedRing[i] = d) + 1]

StatedPrevious(d) == StatedRing[(CHOOSE i \in 2..9 : StatedRing[i] = d) - 1]

\* the board after the store's actRotateArrow(sq, way), and after the
\* search's applyMoveClone of the rotation
StatedStoreTurn(b, sq, way) == boardOf(rotated(HeapOf(b), RefsOf(b), sq, way))

StatedSearchTurn(b, sq, way) ==
  applied(b, [NoMove EXCEPT !.kind = "rotate", !.from = sq, !.dir = way])

\* the board b with the arrow of the king on sq set to d
StatedAimed(b, sq, d) == [b EXCEPT ![sq].arrowDir = d]

\* the arrow of the king on sq after n turns of the store, of the search,
\* starting from the arrow d
RECURSIVE StatedStoreTurns(_, _, _, _, _)
StatedStoreTurns(b, sq, way, d, n) ==
  IF n = 0 \/ d = "none" THEN d
  ELSE StatedStoreTurns(b, sq, way, StatedStoreTurn(StatedAimed(b, sq, d), sq, way)[sq].arrowDir,
                        n - 1)

RECURSIVE StatedSearchTurns(_, _, _, _, _)
StatedSearchTurns(b, sq, way, d, n) ==
  IF n = 0 \/ d = "none" THEN d
  ELSE StatedSearchTurns(b, sq, way,
                         StatedSearchTurn(StatedAimed(b, sq, d), sq, way)[sq].arrowDir, n - 1)

\* one turn is one step round the compass and touches nothing else, the two
\* ways undo each other, eight turns one way come back
StatedCompassTurns(b, sq) ==
  /\ StatedStoreTurn(b, sq, "CW") = StatedAimed(b, sq, StatedNext(b[sq].arrowDir))
  /\ StatedStoreTurn(b, sq, "CCW") = StatedAimed(b, sq, StatedPrevious(b[sq].arrowDir))
  /\ StatedSearchTurn(b, sq, "CW") = StatedAimed(b, sq, StatedNext(b[sq].arrowDir))
  /\ StatedSearchTurn(b, sq, "CCW") = StatedAimed(b, sq, StatedPrevious(b[sq].arrowDir))
  /\ StatedStoreTurn(StatedStoreTurn(b, sq, "CW"), sq, "CCW") = b
  /\ StatedStoreTurn(StatedStoreTurn(b, sq, "CCW"), sq, "CW") = b
  /\ StatedSearchTurn(StatedSearchTurn(b, sq, "CW"), sq, "CCW") = b
  /\ StatedSearchTurn(StatedSearchTurn(b, sq, "CCW"), sq, "CW") = b
  /\ \A way \in Ways :
       /\ StatedStoreTurns(b, sq, way, b[sq].arrowDir, 8) = b[sq].arrowDir
       /\ StatedSearchTurns(b, sq, way, b[sq].arrowDir, 8) = b[sq].arrowDir

\* C26: on every board a CW turn of a king sets its arrow to the next of N,
\* NE, E, SE, S, SW, W, NW, N and a CCW turn to the previous one, nothing else
\* on the board changes, CW then CCW (and CCW then CW) and eight turns one
\* way give the board back; and a step of the view that confirms a previewed
\* direction for the selected king leaves that king aimed at the previewed
\* direction.
RotationIsCompassStep ==
  [][/\ \A sq \in DOMAIN B : StatedArrowKing(B, sq) => StatedCompassTurns(B, sq)
     /\ (/\ act'.kind = "confirmRotation"
         /\ act'.dir # "none"
         /\ StatedArrowKing(B, act'.from))
        => pieceAt(Deref(heap', board'), act'.from).arrowDir = act'.dir]_vars

\* ---- C27 ----

\* the steps of the view that ask for a rotation: the Rotate button, a dot,
\* Cycle or the R key, Confirm or Enter
StatedRotateRequests == {"rotateButton", "handleOrient", "cycleCW", "confirmRotation"}

\* C27: a step that asks for a rotation of the piece on a square leaves the
\* board as it was unless the square holds a king with an arrow whose value
\* on the board before the step is at least 2.
RotationNeedsValueTwo ==
  [][(/\ act'.kind \in StatedRotateRequests
      /\ ~(StatedArrowKing(B, act'.from) /\ valueAt(B, act'.from) >= 2))
     => Deref(heap', board') = B]_vars

\* ---- C28 ----

\* the list holds the action (kind, from, to, l2, flag, dir), whatever its score
StatedLists(moves, kind, from, to, l2, flag, dir) ==
  \E i \in 1..Len(moves) :
    withScore(moves[i], 0) = AIMove(kind, from, to, l2, flag, dir, 0)

\* the one-step actions of the piece at from: a move to an empty neighbour,
\* the capture of a neighbouring enemy that is not stronger, the combine of
\* two plain singles
StatedStepsListed(b, moves, from) ==
  valueAt(b, from) >= 1 =>
    \A q \in StatedAround(from) :
      /\ q \notin DOMAIN b => StatedLists(moves, "move", from, q, NoCoord, FALSE, "none")
      /\ (/\ q \in DOMAIN b
          /\ ownerOf(b[q]) # ownerOf(b[from])
          /\ valueAt(b, q) <= valueAt(b, from))
           => StatedLists(moves, "move", from, q, NoCoord, TRUE, "none")
      /\ StatedCombinePair(b, from, q)
           => StatedLists(moves, "combine", from, q, NoCoord, FALSE, "none")

\* what generateKingArrowMoves gives the king at from: the two-step move or
\* capture at value 2, the slide moves and capture at value 3
StatedArrowListed(b, moves, from, arrow) ==
  \A i \in 1..Len(arrow) :
    StatedLists(moves, "move", from, arrow[i].to, NoCoord, arrow[i].type = "capture", "none")

\* both rotations of a king of value 3
StatedTurnsListed(b, moves, from) ==
  valueAt(b, from) >= 3 =>
    \A way \in Ways : StatedLists(moves, "rotate", from, NoCoord, NoCoord, FALSE, way)

\* every scatter validateScatter accepts from a base of scatterBases
StatedScattersListed(b, moves, from) ==
  \A base \in StatedSetOf(scatterBases(b, from)) :
    validateScatter(b, from, base).can
      => StatedLists(moves, "scatter", from, validateScatter(b, from, base).l1,
                     validateScatter(b, from, base).l2, FALSE, "none")

\* C28: the list enumerateMoves returns for a side holds every legal action
\* of that side: every one-step move, capture and combine, every move and
\* capture along the arrow of a king of value 2 (two steps) or 3 (slide), both
\* rotations of every king of value 3, every scatter validateScatter accepts
\* from a base of scatterBases; and the list is ordered by score, best first.
EnumerateHasEveryAction ==
  result.fn = "enumerateMoves"
  => /\ \A from \in DOMAIN B :
          ownerOf(B[from]) = result.out.side
          => /\ StatedStepsListed(B, result.out.moves, from)
             /\ StatedArrowKing(B, from)
                  => /\ StatedArrowListed(B, result.out.moves, from,
                                          generateKingArrowMoves(B, from, B[from],
                                                                 valueAt(B, from),
                                                                 result.out.side))
                     /\ StatedTurnsListed(B, result.out.moves, from)
                     /\ StatedScattersListed(B, result.out.moves, from)
     /\ \A i \in 1..Len(result.out.moves), j \in 1..Len(result.out.moves) :
          i < j => result.out.moves[i].score >= result.out.moves[j].score

\* ---- C29 ----

\* the first-ply actions pickWithLookahead goes through
StatedSearched(b, side, moveLimit) == StatedSetOf(slice(enumerateMoves(b, side), moveLimit))

\* C29: whatever the moveLimit, every capture in the scored list of the side
\* is among the first-ply actions pickWithLookahead searches.
CapturesAlwaysSearched ==
  result.fn = "pickWithLookahead"
  => \A m \in StatedSetOf(enumerateMoves(B, result.out.side)) :
       isCaptureMove(m) => m \in StatedSearched(B, result.out.side, result.out.moveLimit)

\* ------------------------------------------------------------------------
\* SpecReplies: the opponent replies pickWithLookahead looks at after each
\* first-ply action it searches
\* ------------------------------------------------------------------------

\* a Black king aimed along the top row at a White piece two squares away, a
\* Black key single beside it, and possibly a White key single further off
ReplyBoards ==
  {[sq \in {<<0, 0>>, <<1, 1>>, <<0, 2>>} \cup far |->
      CASE sq = <<0, 0>> -> makeKing("Black", "E")
        [] sq = <<1, 1>> -> makeSingle("Black", TRUE)
        [] sq = <<0, 2>> -> y
        [] OTHER -> makeSingle("White", TRUE)] :
     y \in {makeSingle("White", TRUE), makeSingle("White", FALSE), makeKing("White", "W")},
     far \in {{}, {<<2, 3>>}}}

InitReplies ==
  /\ \E pl \in ReplyBoards : heap = HeapOf(pl) /\ board = RefsOf(pl)
  /\ Idle

ReplyLimits == {0, 1, OPP_REPLY_LIMIT_DEFAULT}

\* the loop of pickWithLookahead reaches the i-th first move and goes on to
\* the replies: no move before it, nor itself, took the last key
reachesReplies(b, side, firstMoves, i) ==
  /\ i <= Len(firstMoves)
  /\ \A j \in 1..i : keysRemaining(applied(b, firstMoves[j]), other(side)) # 0

\* const replies = shortlistReplies(nb, other(side), replyLimit)
repliesTo(b, side, replyLimit, m) ==
  [side |-> side, replyLimit |-> replyLimit, first |-> m,
   replies |-> shortlistReplies(applied(b, m), other(side), replyLimit)]

RepliesOf(side, firstMoves) ==
  \E i \in 1..Len(firstMoves), replyLimit \in ReplyLimits :
    /\ reachesReplies(B, side, firstMoves, i)
    /\ Answer("shortlistReplies", firstMoves[i].from, firstMoves[i].to,
              repliesTo(B, side, replyLimit, firstMoves[i]))

Replies ==
  \E side \in Players :
    RepliesOf(side, slice(enumerateMoves(B, side), MOVE_LIMIT_DEFAULT))

NextReplies == Replies

SpecReplies == InitReplies /\ [][NextReplies]_vars

\* ---- C30 ----

\* every capture `side` can make on b is in the list: one step, along a
\* king's arrow, or by a scatter that lands on an enemy
StatedCapturesListed(b, side, moves) ==
  \A from \in DOMAIN b :
    ownerOf(b[from]) = side
    => /\ valueAt(b, from) >= 1
            => \A q \in StatedAround(from) \cap DOMAIN b :
                 (ownerOf(b[q]) # side /\ valueAt(b, q) <= valueAt(b, from))
                   => StatedLists(moves, "move", from, q, NoCoord, TRUE, "none")
       /\ StatedArrowKing(b, from)
            => /\ StatedArrowListed(b, moves, from,
                                    SelectSeq(generateKingArrowMoves(b, from, b[from],
                                                                     valueAt(b, from), side),
                                              LAMBDA h : h.type = "capture"))
               /\ \A base \in StatedSetOf(scatterBases(b, from)) :
                    (/\ validateScatter(b, from, base).can
                     /\ {validateScatter(b, from, base).l1, validateScatter(b, from, base).l2}
                          \cap DOMAIN b # {})
                    => StatedLists(moves, "scatter", from, validateScatter(b, from, base).l1,
                                   validateScatter(b, from, base).l2, FALSE, "none")

\* the first k entries of the scored list that are no one-step captures
StatedTopOthers(all, k) == StatedSetOf(slice(SelectSeq(all, LAMBDA m : ~isCaptureMove(m)), k))

\* C30: the replies looked at after a searched first-ply action hold every
\* capture the opponent can make on the board after that action, and the
\* replyLimit best-scored replies that are no captures, for every replyLimit.
RepliesKeepCaptures ==
  result.fn = "shortlistReplies"
  => /\ StatedCapturesListed(applied(B, result.out.first), other(result.out.side),
                             result.out.replies)
     /\ StatedTopOthers(enumerateMoves(applied(B, result.out.first), other(result.out.side)),
                        result.out.replyLimit)
          \subseteq StatedSetOf(result.out.replies)

\* ---- C31 ----

\* the first-ply actions in the order the search goes through them
StatedSeqOf(b, side, moveLimit) == slice(enumerateMoves(b, side), moveLimit)

\* the lowest evaluation for `side` over the boards the replies lead to
StatedWorstCase(nb, side, replies) ==
  CHOOSE v \in {evaluateBoard(applied(nb, replies[k]), side) : k \in 1..Len(replies)} :
    \A k \in 1..Len(replies) : v <= evaluateBoard(applied(nb, replies[k]), side)

\* for a first-ply action m that has replies: the evaluation after m, the
\* worst case after the opponent's reply, and the score the search gives m
StatedRow(b, side, replyLimit, m, replies) ==
  [base |-> evaluateBoard(applied(b, m), side),
   worst |-> StatedWorstCase(applied(b, m), side, replies),
   score |-> minimaxScore(applied(b, m), side, replyLimit)]

\* the rows of the searched first-ply actions whose replies are looked at
StatedRows(b, side, replyLimit, firstMoves) ==
  {StatedRow(b, side, replyLimit, firstMoves[i],
             shortlistReplies(applied(b, firstMoves[i]), other(side), replyLimit)) :
     i \in {j \in 1..Len(firstMoves) :
              /\ reachesReplies(b, side, firstMoves, j)
              /\ Len(shortlistReplies(applied(b, firstMoves[j]), other(side), replyLimit)) > 0}}

\* no searched action took the last key: every one of them was scored
StatedAllScored(b, side, firstMoves) ==
  Len(firstMoves) > 0 /\ reachesReplies(b, side, firstMoves, Len(firstMoves))

StatedMinimaxOrder(rows) ==
  \A x \in rows, y \in rows :
    (x.base = y.base /\ x.worst > y.worst) => x.score >= y.score

StatedMaximal(b, side, replyLimit, firstMoves, move) ==
  StatedAllScored(b, side, firstMoves)
  => \A i \in 1..Len(firstMoves) :
       move.score >= minimaxScore(applied(b, firstMoves[i]), side, replyLimit)

\* C31: pickWithLookahead is a depth-2 minimax: of two searched first-ply
\* actions with the same evaluation after the action, the one whose worst
\* case after the opponent's searched reply is higher never gets the lower
\* score, and the returned action has the highest score of the searched ones.
PickIsMinimax ==
  result.fn = "pickWithLookahead"
  => /\ StatedMinimaxOrder(StatedRows(B, result.out.side, OPP_REPLY_LIMIT_DEFAULT,
                                      StatedSeqOf(B, result.out.side, result.out.moveLimit)))
     /\ StatedMaximal(B, result.out.side, OPP_REPLY_LIMIT_DEFAULT,
                      StatedSeqOf(B, result.out.side, result.out.moveLimit), result.out.move)

\* ---- C32 ----

\* the score the search gives each first-ply action
StatedScores(b, side, replyLimit, firstMoves) ==
  [i \in 1..Len(firstMoves) |-> minimaxScore(applied(b, firstMoves[i]), side, replyLimit)]

\* the first-ply actions whose score is the top score
StatedTied(firstMoves, scores) ==
  {withScore(firstMoves[i], scores[i]) :
     i \in {j \in 1..Len(firstMoves) : \A k \in 1..Len(firstMoves) : scores[j] >= scores[k]}}

\* the actions a call of pickWithLookahead on b for side can return: the
\* function draws no random number and reads nothing but its arguments
StatedPossibleResults(b, side, replyLimit, moveLimit) ==
  {pickWithLookahead(b, side, replyLimit, moveLimit)}

StatedEachTiedPossible(tied, possible) ==
  Cardinality(tied) >= 2 => tied \subseteq possible

\* C32: when two or more searched first-ply actions share the top score,
\* each of them is a possible result of pickWithLookahead on that board.
TiesAreBrokenAtRandom ==
  (/\ result.fn = "pickWithLookahead"
   /\ StatedAllScored(B, result.out.side,
                      StatedSeqOf(B, result.out.side, result.out.moveLimit)))
  => StatedEachTiedPossible(
       StatedTied(StatedSeqOf(B, result.out.side, result.out.moveLimit),
                  StatedScores(B, result.out.side, OPP_REPLY_LIMIT_DEFAULT,
                               StatedSeqOf(B, result.out.side, result.out.moveLimit))),
       StatedPossibleResults(B, result.out.side, OPP_REPLY_LIMIT_DEFAULT,
                             result.out.moveLimit))

\* ---- C33 ----

\* one or two counters, all of one owner, and no key among two
StatedWellFormed(p) ==
  /\ Len(p.counters) \in {1, 2}
  /\ \A i \in 1..Len(p.counters) : p.counters[i].owner = p.counters[1].owner
  /\ Len(p.counters) = 2 => \A i \in 1..2 : p.counters[i].isKey # "true"

\* C33: after any sequence of store actions with any arguments every piece
\* on the board has one or two counters, all of the same owner, and no piece
\* of two counters holds a key counter.
PiecesWellFormed == \A sq \in DOMAIN B : StatedWellFormed(B[sq])

\* a combine was accepted and formed a king beside a piece that is still there
PiecesWellFormedWitness ==
  /\ act.kind = "actCombine"
  /\ Len(history) > 0
  /\ act.to \in DOMAIN B
  /\ Len(B[act.to].counters) = 2
  /\ steps = MaxSteps

\* ---- C34 ----

StatedKingAt(b, sq) == sq \in DOMAIN b /\ Len(b[sq].counters) = 2

\* after is before with the action a applied
StatedArrowRule(before, after, a) ==
  /\ \A sq \in DOMAIN after : StatedKingAt(after, sq) => after[sq].arrowDir \in Dirs
  /\ (/\ a.m = "move" /\ a.from # a.to /\ StatedKingAt(before, a.from))
       => /\ StatedKingAt(after, a.to)
          /\ after[a.to].arrowDir = before[a.from].arrowDir
  /\ (/\ a.m = "combine" /\ after # before /\ a.from # a.to /\ StatedKingAt(after, a.to))
       => after[a.to].arrowDir = StatedCompass(a.from, a.to)
  /\ \A sq \in DOMAIN before :
       (/\ StatedKingAt(before, sq) /\ StatedKingAt(after, sq)
        /\ after[sq].arrowDir # before[sq].arrowDir)
       => \/ a.m = "rotate" /\ sq = a.from
          \/ a.m = "move" /\ sq = a.to /\ StatedKingAt(before, a.from)

\* the action of a step of the store or of the search, by its kind
StatedKindOf(a) ==
  [a EXCEPT !.m = CASE a.kind = "actMove" -> "move"
                    [] a.kind = "actCombine" -> "combine"
                    [] a.kind = "actScatter" -> "scatter"
                    [] a.kind = "actRotateArrow" -> "rotate"
                    [] OTHER -> a.m]

\* C34: every king has an arrow; the combine that forms a king sets its arrow
\* to the direction of the combining step, a king that moves or captures
\* carries its arrow with it, and the arrow of a king that stays where it is
\* changes only by a rotate.
ArrowSetOnceTurnedByRotate ==
  [][/\ act'.kind \in {"actMove", "actCombine", "actScatter", "actRotateArrow"}
          => StatedArrowRule(B, Deref(heap', board'), StatedKindOf(act'))
     /\ (act'.kind = "applyMoveClone" /\ act'.on = "board")
          => StatedArrowRule(B, Deref(heap', hyp'), act')]_vars

\* a king that a combine formed, aimed the way of the combining step, has
\* then moved and still aims that way
ArrowSetOnceTurnedByRotateWitness ==
  /\ act.kind = "actMove"
  /\ Len(history) = 2
  /\ StatedKingAt(B, act.to)
  /\ B[act.to].arrowDir = "E"
  /\ \A sq \in DOMAIN Deref(heap, history[1].board) :
       ~StatedKingAt(Deref(heap, history[1].board), sq)

\* ---- C35 ----

\* the step `did`, which led from the board `before` to the board `after`,
\* is the store action that matches the action a, with a's own parameters
StatedAppliedBy(before, after, a, did) ==
  /\ a.kind = "move"
       => /\ did.kind = "actMove" /\ did.from = a.from /\ did.to = a.to /\ did.flag = a.flag
          /\ a.from \notin DOMAIN after
          /\ pieceAt(after, a.to) = pieceAt(before, a.from)
  /\ a.kind = "combine"
       => /\ did.kind = "actCombine" /\ did.from = a.from /\ did.to = a.to
          /\ StatedKingAt(after, a.to)
  /\ a.kind = "rotate"
       => /\ did.kind = "actRotateArrow" /\ did.from = a.from /\ did.dir = a.dir
          /\ pieceAt(after, a.from).arrowDir = turnDir(pieceAt(before, a.from).arrowDir, a.dir)
  /\ a.kind = "scatter" => StatedScattered(before, after, a.from, a.to, a.l2)

\* C35: the AI turn handler applies every kind of action the AI returns by
\* the matching store action with that action's own parameters; a returned
\* scatter leaves two singles on its landing squares in place of the king.
AIActionsAreApplied ==
  [][(/\ act = NoAct
      /\ act'.kind \in {"aiLoop", "actMove", "actCombine", "actScatter", "actRotateArrow"})
     => StatedAppliedBy(B, Deref(heap', board'),
                        firstChoice(pickWithLookahead(B, turn, OPP_REPLY_LIMIT_DEFAULT,
                                                      MOVE_LIMIT_DEFAULT),
                                    enumerateMoves(B, turn)),
                        act')]_vars

\* ------------------------------------------------------------------------
\* SpecLegal: one legal action of the side to move on every starting board
\* ------------------------------------------------------------------------

\* the view commits the highlight h of the selected piece: a combine by
\* actCombine, a move or capture by actMove
commitHighlight(from, h) ==
  IF h.type = "combine" THEN actCombine(from, h.to)
  ELSE actMove(from, h.to, h.type = "capture")

\* the piece on `from` is the mover's and the mover does with it what the
\* rules allow: a highlighted step, a turn of a king that may turn, a valid
\* scatter
LegalBy(from, hs) ==
  /\ from \in DOMAIN B
  /\ ownerOf(B[from]) = turn
  /\ \/ \E i \in 1..Len(hs) : commitHighlight(from, hs[i])
     \/ /\ isKing(B[from]) /\ B[from].arrowDir # "none" /\ valueAt(B, from) >= 2
        /\ \E way \in Ways : actRotateArrow(from, way)
     \/ \E base \in ScatterBasesTried : ScatterBy(from, validateScatter(B, from, base))

\* the search applies one of the actions it lists for the side to move
SearchBy(moves) == \E i \in 1..Len(moves) : Apply("board", moves[i])

NextLegal ==
  /\ steps < 1
  /\ UNCHANGED animTimer
  /\ \/ \E from \in Region : LegalBy(from, highlightsFor(B, from, turn))
     \/ SearchBy(enumerateMoves(B, turn))

SpecLegal == InitRules /\ [][NextLegal]_vars

\* ---- C36 ----

\* the counters of `side` on b, or its key counters
StatedCount(b, side, keys) ==
  SumF([sq \in DOMAIN b |->
          Cardinality({i \in 1..Len(b[sq].counters) :
                         /\ b[sq].counters[i].owner = side
                         /\ keys => b[sq].counters[i].isKey = "true"})])

\* the squares whose enemy piece the action a of `side` captures
StatedCaptured(b, side, a) ==
  {sq \in (CASE a.m = "move" -> {a.to}
             [] a.m = "scatter" -> {a.to, a.l2}
             [] OTHER -> {}) \cap DOMAIN b : ownerOf(b[sq]) # side}

StatedWithout(b, S) == [sq \in DOMAIN b \ S |-> b[sq]]

StatedConserved(before, after, side, a) ==
  \A keys \in BOOLEAN :
    /\ StatedCount(after, side, keys) = StatedCount(before, side, keys)
    /\ StatedCount(after, other(side), keys)
         = StatedCount(StatedWithout(before, StatedCaptured(before, side, a)), other(side), keys)
    /\ StatedCount(after, other(side), keys) <= StatedCount(before, other(side), keys)

\* C36: a legal move, capture, combine, rotation or scatter leaves the acting
\* side with the counters and key counters it had, and takes from the
\* opponent the counters of the pieces on the captured squares and no other.
CountersConserved ==
  [][/\ act'.kind \in {"actMove", "actCombine", "actScatter", "actRotateArrow"}
          => StatedConserved(B, Deref(heap', board'), turn, StatedKindOf(act'))
     /\ act'.kind = "applyMoveClone"
          => StatedConserved(B, Deref(heap', hyp'), turn, act')]_vars

\* a king was captured: the opponent is two counters short and the mover has
\* what it had
CountersConservedWitness ==
  /\ act.kind = "actMove"
  /\ act.flag
  /\ Len(history) = 1
  /\ StatedKingAt(Deref(heap, history[1].board), act.to)
  /\ StatedCount(B, "White", FALSE) + 2 = StatedCount(Deref(heap, history[1].board), "White", FALSE)
  /\ StatedCount(B, "Black", TRUE) = 1

\* ---- C38 ----

\* base is the king's own square or, for a king of value 3 or more, an empty
\* square the king reaches by sliding down its arrow
StatedIsBase(b, from, base) ==
  \/ base = from
  \/ /\ valueAt(b, from) >= 3
     /\ \E k \in 1..StatedOpenRun(b, from) : base = StatedStep(b, from, k)

\* C38: validateScatter answers can = true only for a base that scatterBases
\* lists for the king: its own square, or at value 3 or more an empty square
\* it can slide to along its arrow.
ValidatedBaseIsABase ==
  (result.fn = "validateScatter" /\ result.out.can)
  => /\ StatedArrowKing(B, result.from)
     /\ StatedIsBase(B, result.from, result.base)
     /\ SeqHas(scatterBases(B, result.from), result.base)

\* ------------------------------------------------------------------------
\* SpecHistory: the history-keeping store from the initial board: actions
\* with any arguments around a corner of Black's camp, undo and reset
\* ------------------------------------------------------------------------

\* gameStore.ts lines 427-438: reset (the scatter fields are not modelled)
reset ==
  /\ StampStore([NoAct EXCEPT !.kind = "reset", !.on = "store"])
  /\ heap' = heap \o HeapOf(initialBoard)
  /\ board' = [sq \in DOMAIN initialBoard |-> Len(heap) + RefsOf(initialBoard)[sq]]
  /\ turn' = "Black"
  /\ selected' = NoCoord
  /\ highlights' = << >>
  /\ history' = << >>
  /\ canUndo' = FALSE
  /\ UNCHANGED <<hyp, given, result, rotateMode, previewDir>>

\* the moves tried: either of two Black singles, one before the other, to
\* the empty square before them, and from there onto the White single
HistoryMoves ==
  {<<<<6, 1>>, <<4, 1>>, FALSE>>, <<<<5, 1>>, <<4, 1>>, FALSE>>, <<<<4, 1>>, <<3, 1>>, TRUE>>}

MaxUndoSteps == 4

NextHistory ==
  /\ steps < MaxUndoSteps
  /\ UNCHANGED animTimer
  /\ \/ \E mv \in HistoryMoves : actMove(mv[1], mv[2], mv[3])
     \/ actCombine(<<6, 1>>, <<5, 1>>)
     \/ actScatter(<<5, 1>>, <<4, 1>>, <<3, 1>>)
     \/ undo
     \/ reset

SpecHistory == InitSetup /\ [][NextHistory]_vars

\* ---- C37 ----

\* the snapshots of the history, as board values
StatedSnapshots(h, hist) ==
  [i \in 1..Len(hist) |-> [board |-> Deref(h, hist[i].board), turn |-> hist[i].turn]]

StatedStoreKept ==
  /\ Deref(heap', board') = B
  /\ turn' = turn
  /\ StatedSnapshots(heap', history') = StatedSnapshots(heap, history)
  /\ canUndo' = canUndo

\* the action pushed the board and the turn it found and passed the turn on
StatedPushedOnce ==
  /\ StatedSnapshots(heap', history')
       = Append(StatedSnapshots(heap, history), [board |-> B, turn |-> turn])
  /\ turn' = other(turn)

\* the undo put back the board and the turn of the last snapshot and took it
\* off the history
StatedPoppedOnce ==
  /\ Deref(heap', board') = Deref(heap, history[Len(history)].board)
  /\ turn' = history[Len(history)].turn
  /\ StatedSnapshots(heap', history')
       = SubSeq(StatedSnapshots(heap, history), 1, Len(history) - 1)

\* canUndo tells whether there is a snapshot, and with no snapshot left the
\* store is at the initial board with Black to move
StatedHistoryInv(b, t, hist, flag) ==
  /\ flag <=> Len(hist) > 0
  /\ Len(hist) = 0 => (b = initialBoard /\ t = "Black")

\* C37: an accepted actMove, actCombine or actScatter pushes one snapshot and
\* flips the turn once; undo puts back the board and the turn of before the
\* last action, so that n undos after n actions lead to the initial board
\* with Black to move; canUndo holds exactly when the history is not empty;
\* undo on an empty history changes nothing.
UndoRestores ==
  [][/\ StatedHistoryInv(B, turn, history, canUndo)
     /\ StatedHistoryInv(Deref(heap', board'), turn', history', canUndo')
     /\ act'.kind \in {"actMove", "actCombine", "actScatter"}
          => (StatedStoreKept \/ StatedPushedOnce)
     /\ act'.kind = "undo"
          => IF Len(history) = 0 THEN StatedStoreKept /\ selected' = selected
             ELSE StatedPoppedOnce]_vars

\* two actions were accepted and two undos have led back to the initial board
UndoRestoresWitness ==
  /\ act.kind = "undo"
  /\ steps = 4
  /\ Len(given) = 6
  /\ Len(history) = 0
  /\ B = initialBoard
  /\ turn = "Black"

\* ------------------------------------------------------------------------
\* SpecAITurn: the AI loop of the board view, run as often as it is scheduled
\* ------------------------------------------------------------------------

\* the side the AI plays
aiColor == "Black"

\* Board.tsx lines 481-492: the winner has taken the enemy's key pieces
winner(b) ==
  IF keysRemaining(b, "White") = 0 THEN "Black"
  ELSE IF keysRemaining(b, "Black") = 0 THEN "White"
  ELSE "none"

\* actRotateArrow(action.at, action.dir): the new board replaces the old one,
\* whose piece objects nothing refers to any more
aiRotate(a, v) ==
  /\ act' = [NoAct EXCEPT !.kind = "actRotateArrow", !.on = "store", !.from = a.from,
                          !.dir = a.dir]
  /\ heap' = HeapOf(v)
  /\ board' = RefsOf(v)
  /\ UNCHANGED <<turn, selected, highlights, history, hyp, given, result, rotateMode,
                 previewDir, steps, inbox, outbox, handled, canUndo>>

\* the timer of the AI loop fires for the action a
aiTurn(a) ==
  IF a.kind = "rotate" THEN aiRotate(a, boardOf(rotated(heap, board, a.from, a.dir)))
  ELSE aiAct(a)

\* Board.tsx lines 186-189 and 204-215: the effect runs when the board or the
\* turn has changed, and sets its timer when there is no winner and it is the
\* AI's turn; a callback that raised has changed neither
aiTimerSet ==
  /\ winner(B) = "none"
  /\ turn = aiColor
  /\ act.kind # "aiLoop"

\* Board.tsx lines 191-201: the timer fires
aiTimer ==
  /\ aiTimerSet
  /\ aiTurn(firstChoice(pickWithLookahead(B, turn, OPP_REPLY_LIMIT_DEFAULT, MOVE_LIMIT_DEFAULT),
                        enumerateMoves(B, turn)))
  /\ UNCHANGED animTimer

\* a Black king in the corner, a second Black king beside it, a Black key
\* piece and a White key piece
TurnBoards ==
  {[sq \in {<<0, 0>>, k, <<2, 0>>, w} |->
      CASE sq = <<0, 0>> -> makeKing("Black", d1)
        [] sq = k -> makeKing("Black", d2)
        [] sq = <<2, 0>> -> makeSingle("Black", TRUE)
        [] OTHER -> makeSingle("White", TRUE)] :
     d1 \in Dirs, d2 \in Dirs, k \in {<<0, 1>>, <<1, 1>>}, w \in {<<3, 3>>, <<7, 7>>}}

InitTurn ==
  /\ \E pl \in TurnBoards : heap = HeapOf(pl) /\ board = RefsOf(pl)
  /\ Idle

NextTurn == aiTimer

\* a timer that is set fires
SpecAITurn == InitTurn /\ [][NextTurn]_vars /\ WF_vars(NextTurn)

\* ---- C39 ----

\* C39: whenever it is the AI's turn, there is no winner and the AI has a
\* legal action, the turn eventually passes to the human player. The turn
\* changes only when the AI's timer fires, so the claim needs the timer to
\* be set in every such state: from a state without the timer nothing moves
\* on.
AITurnPasses ==
  (turn = aiColor /\ winner(B) = "none" /\ StatedHasLegalAction(B, aiColor))
    => aiTimerSet

\* ------------------------------------------------------------------------
\* SpecTimer: the board view's clicks and its commit timer, with the Undo
\* and Reset buttons of the page
\* ------------------------------------------------------------------------

\* Board.tsx lines 219-275: a click on a square by the player to move
\* (scatter mode is off); pieceAt(board, selected)! of an empty square makes
\* ownerOf raise, which ends the handler
onSquareClick_v1(pos) ==
  /\ winner(B) = "none"
  /\ ~rotateMode
  /\ IF selected = NoCoord
     THEN /\ pieceAt(B, pos) # NoPiece
          /\ ownerOf(pieceAt(B, pos)) = turn
          /\ reselect(pos, selectIn(B, pos, turn))
     ELSE /\ pieceAt(B, selected) # NoPiece
          /\ IF ownerOf(pieceAt(B, selected)) # turn
             THEN reselect(NoCoord, selectIn(B, NoCoord, turn))
             ELSE IF \/ SeqHas(legalOf(B, selected, rotateMode).moves, pos)
                     \/ SeqHas(legalOf(B, selected, rotateMode).captures, pos)
                     \/ SeqHas(legalOf(B, selected, rotateMode).combines, pos)
             THEN schedule(pos, legalOf(B, selected, rotateMode))
             ELSE IF pieceAt(B, pos) # NoPiece /\ ownerOf(pieceAt(B, pos)) = turn
             THEN reselect(pos, selectIn(B, pos, turn))
             ELSE reselect(NoCoord, selectIn(B, NoCoord, turn))

\* Board.tsx lines 264-268: the timeout fires with the squares and the flags
\* of the click that set it
animTimeout_v1 ==
  /\ animTimer # NoAct
  /\ animTimer' = NoAct
  /\ IF animTimer.kind = "actCombine" THEN actCombine(animTimer.from, animTimer.to)
     ELSE actMove(animTimer.from, animTimer.to, animTimer.flag)

\* App.tsx line 19: the Undo button is disabled unless canUndo
undoButton == canUndo /\ undo /\ UNCHANGED animTimer

\* App.tsx line 18
resetButton == reset /\ UNCHANGED animTimer

MaxTimerSteps == 4

NextTimer ==
  /\ steps < MaxTimerSteps
  /\ \/ \E pos \in Region : onSquareClick_v1(pos)
     \/ animTimeout_v1
     \/ undoButton
     \/ resetButton

\* a Black key piece in the corner, a Black single or king beside it and a
\* White key piece
TimerBoards ==
  {[sq \in {<<0, 0>>, <<0, 1>>, w} |->
      CASE sq = <<0, 0>> -> makeSingle("Black", TRUE)
        [] sq = <<0, 1>> -> p
        [] OTHER -> makeSingle("White", TRUE)] :
     p \in {makeSingle("Black", FALSE)} \cup {makeKing("Black", d) : d \in Dirs},
     w \in {<<0, 2>>, <<1, 1>>, <<2, 2>>}}

InitTimer ==
  /\ \E pl \in TimerBoards : heap = HeapOf(pl) /\ board = RefsOf(pl)
  /\ Idle

SpecTimer == InitTimer /\ [][NextTimer]_vars

\* ---- C40 ----

\* the commit a is a legal action of the player t on the board b
StatedLegalCommit(b, t, a) ==
  /\ a.from \in DOMAIN b
  /\ ownerOf(b[a.from]) = t
  /\ SeqHas(CASE a.kind = "actCombine" -> legalMovesFor(b, a.from).combines
              [] a.flag -> legalMovesFor(b, a.from).captures
              [] OTHER -> legalMovesFor(b, a.from).moves,
            a.to)

\* C40: the action a commit timer commits is legal on the board and for the
\* turn that exist when the timer fires, whatever undo, reset or click came
\* between the click that set the timer and its firing.
TimerCommitsLegal ==
  [][(animTimer # NoAct /\ animTimer' = NoAct)
     => StatedLegalCommit(B, turn, animTimer)]_vars

====
